---- MODULE Spec2Model ----
(***************************************************************************)
(* Model of the map-transfer bot's orchestration engine:                   *)
(*   ProgressTracker      (src/src/utils/progress.ts)                      *)
(*   PterodactylService   (src/unnamed/part_006)                           *)
(*   SftpService          (src/unnamed/part_009)                           *)
(*   TransferService      (src/unnamed/part_004, lines 841-1348)           *)
(* One run of TransferService.executeTransfer is a sequential process; the *)
(* remote hosts, the local file system and the injected progress callback  *)
(* are the environment, whose every answer is a nondeterministic choice.   *)
(***************************************************************************)
EXTENDS Integers, Sequences, FiniteSets, TLC

VARIABLES
  steps,            \* ProgressTracker.steps: 0..10 -> [status, message, progress]
  startLog,         \* history: indices whose status went pending -> running, in order
  pc,               \* position in executeTransfer
  stepIdx,          \* index of the executeStep call in progress
  ip,               \* position inside that executeStep call
  srvConnected,     \* the locals srv1Connected / srv2Connected
  archiveName,      \* TransferService.archiveName ("" until compressFolder returns)
  error,            \* the exception in flight or caught (<<>>: none)
  firstError,       \* history: the first exception that reached executeTransfer's catch
  rb,               \* history: what each rollback sub-action did in this run
  rollbackCount,    \* history: number of handleRollback invocations
  rollbackReturned, \* history: handleRollback returned normally
  sftpOpen,         \* per host: the SFTP session is established
  disconnectCalls,  \* history: per host, number of SftpService.disconnect calls
  disconnectFailed, \* history: per host, client.end() rejected
  localFs,          \* local staging entries that exist
  powerLog,         \* history: power requests issued, <<host, signal, response>>
  remoteDeletes,    \* history: delete requests issued, <<host, path, response>>
  transfer,         \* transferFileDirect's activation record
  ex,               \* extractArchive's activation record
  extractOutcome,   \* history: how the last extractArchive call ended
  pw,               \* setPowerState's activation record
  th,               \* the clock and the throttle of one file transfer's phases
  handler,          \* handleTransferButton's activation record and process.env
  wt,               \* the waitForServerState calls a step operation awaits
  poll,             \* one call of the polling waitForServerState
  walk,             \* one call of SftpService.downloadFolder or uploadFolder
  pd,               \* the player files: on srv2 before the run and now, and in the cache
  bot               \* MinecraftTransferBot: its handlers, timers, fields and messages

vars == <<steps, startLog, pc, stepIdx, ip, srvConnected, archiveName, error,
          firstError, rb, rollbackCount, rollbackReturned, sftpOpen,
          disconnectCalls, disconnectFailed, localFs, powerLog, remoteDeletes,
          transfer, ex, extractOutcome, pw, th, handler, wt, poll, walk, pd,
          bot>>

(***************************************************************************)
(* Bounds of the model and constants of the program                        *)
(***************************************************************************)
NumSteps == 11
maxPollingAttempts == 24
MaxProgressEvents == 2
\* the steps a caller of the tracker alone may set to any status
MaxFreeSteps == 2
\* the clock stops at this many milliseconds
MaxClock == 1500
\* at most this many environment variables are unset
MaxMissing == 2
\* the polling wait is called with at most this many polls allowed
MaxWaitTicks == 11
\* a transferred folder has at most this many entries, and each of its
\* sub-folders at most this many files
MaxEntries == 3
MaxSubFiles == 2
\* the 'start_transfer' button is pressed at most this many times, and the
\* embed-recreation timers fire at most this many times in all
MaxPresses == 2
MaxFirings == 1
\* the size in bytes of the file a phase transfers
FileSize == 3

Servers == {"srv1", "srv2"}
ArchiveFile == "archive.tar.gz"
\* entry names a listing of the destination root can hold
EntryNames == {ArchiveFile, "a", "b", "c"}
Percentages == {0, 50, 100}

(***************************************************************************)
(* ProgressTracker                                                         *)
(***************************************************************************)
StepIndices == 0 .. (NumSteps - 1)

initializeSteps ==
  [i \in StepIndices |->
     [status |-> "pending", message |-> <<"En attente...">>, progress |-> 0]]

\* faulty variant: the assignment without the test of this.steps[stepIndex]
updateStepUnguarded(s, stepIndex, status, message, progress) ==
  [j \in DOMAIN s \cup {stepIndex} |->
     IF j = stepIndex
       THEN [status |-> status, message |-> message, progress |-> progress]
       ELSE s[j]]

updateStep(s, stepIndex, status, message, progress) ==
  IF stepIndex \in DOMAIN s
    THEN [s EXCEPT ![stepIndex] =
            [status |-> status, message |-> message, progress |-> progress]]
    ELSE s

\* Array.prototype.findIndex, some, every and filter(...).length over the
\* steps array, scanning from index i upwards for the given status
RECURSIVE findIndex(_, _, _)
findIndex(s, i, status) ==
  IF i \notin DOMAIN s THEN -1
  ELSE IF s[i].status = status THEN i
  ELSE findIndex(s, i + 1, status)

RECURSIVE some(_, _, _)
some(s, i, status) ==
  IF i \notin DOMAIN s THEN FALSE
  ELSE IF s[i].status = status THEN TRUE
  ELSE some(s, i + 1, status)

RECURSIVE every(_, _, _)
every(s, i, status) ==
  IF i \notin DOMAIN s THEN TRUE
  ELSE IF s[i].status # status THEN FALSE
  ELSE every(s, i + 1, status)

RECURSIVE filterLength(_, _, _)
filterLength(s, i, status) ==
  IF i \notin DOMAIN s THEN 0
  ELSE (IF s[i].status = status THEN 1 ELSE 0) + filterLength(s, i + 1, status)

\* faulty variant: the position among the steps, counted from one
getCurrentStepOneBased(s) ==
  IF findIndex(s, 0, "running") >= 0 THEN findIndex(s, 0, "running") + 1 ELSE -1

\* this.steps.findIndex(step => step.status === 'running')
getCurrentStep(s) == findIndex(s, 0, "running")

\* this.steps.some(step => step.status === 'error')
hasErrors(s) == some(s, 0, "error")

\* faulty variant: some() where every() is meant
isCompletedSome(s) == some(s, 0, "completed")

\* this.steps.every(step => step.status === 'completed')
isCompleted(s) == every(s, 0, "completed")

\* Math.round(num / den) for num >= 0 and den > 0: halves go up
MathRound(num, den) == (2 * num + den) \div (2 * den)

\* faulty variant: the progress of the running step counts as a whole step
getOverallProgressWholeStep(s) ==
  LET completedSteps == filterLength(s, 0, "completed")
      currentStep == getCurrentStep(s)
      currentProgress == IF currentStep >= 0 THEN s[currentStep].progress ELSE 0
  IN MathRound(100 * (completedSteps + currentProgress), Cardinality(DOMAIN s))

\* Math.round(((completedSteps + currentProgress / 100) / steps.length) * 100)
getOverallProgress(s) ==
  LET completedSteps == filterLength(s, 0, "completed")
      currentStep == getCurrentStep(s)
      currentProgress == IF currentStep >= 0 THEN s[currentStep].progress ELSE 0
  IN MathRound(100 * completedSteps + currentProgress, Cardinality(DOMAIN s))

\* history of first starts, kept beside every tracker update
Started(s, t, log) ==
  IF \E i \in DOMAIN s : s[i].status = "pending" /\ t[i].status = "running"
    THEN log \o <<CHOOSE i \in DOMAIN s :
                    s[i].status = "pending" /\ t[i].status = "running">>
    ELSE log

(***************************************************************************)
(* The operations handed to executeStep, as instruction lists.             *)
(*   upd  : tracker.updateStep(k,'running',msg,progress); progressCallback *)
(*   call : an awaited call on a service or on the local file system       *)
(*   test : an awaited boolean, branching to alt when false                *)
(* next (when not 0) is where control goes after the instruction instead   *)
(* of the following one; onThrow (when not 0) is the handler of the try    *)
(* block that encloses the instruction inside the operation.               *)
(***************************************************************************)
Ins(op, progress, msg, call, srv, arg) ==
  [op |-> op, progress |-> progress, msg |-> msg, call |-> call, srv |-> srv,
   arg |-> arg, next |-> 0, alt |-> 0, onThrow |-> 0]

Upd(progress, msg) == Ins("upd", progress, msg, "", "", "")

Call(call, srv, arg) == Ins("call", 0, "", call, srv, arg)

Test(call, srv, arg, alt) == [Ins("test", 0, "", call, srv, arg) EXCEPT !.alt = alt]

Caught(ins, onThrow) == [ins EXCEPT !.onThrow = onThrow]

Then(ins, next) == [ins EXCEPT !.next = next]

Step0Op ==
  << Upd(50, "Initialisation..."),
     Call("sleep", "", "2000"),
     Upd(100, "Preparation terminee") >>

Step1Op ==
  << Upd(25, "Arret du serveur Build..."),
     Call("setPowerState", "srv1", "stop"),
     Upd(50, "Arret du serveur Staging..."),
     Call("setPowerState", "srv2", "stop"),
     Upd(75, "Attente arret complet (45s)..."),
     Call("waitForServerState", "both", "offline") >>

Step2Op ==
  << Upd(50, "Compression en cours..."),
     Call("compressFolder", "srv1", "world") >>

\* backupPlayerData
Step3Op ==
  << Upd(25, "Verification playerdata..."),
     Test("fileExists", "srv2", "world/playerdata", 7),
     Upd(50, "Sauvegarde playerdata..."),
     Call("ensureDir", "", "cache"),
     Call("downloadFolder", "srv2", "world/playerdata"),
     Then(Upd(100, "Sauvegarde terminee"), 10),
     Upd(75, "Creation dossier playerdata vide..."),
     Call("ensureDir", "", "cache/playerdata"),
     Upd(100, "Dossier vide cree") >>

Step4Op ==
  << Call("transferFileDirect", "srv2", "archive") >>

Step5Op ==
  << Upd(50, "Redemarrage automatique du serveur Build..."),
     Caught(Call("setPowerState", "srv1", "start"), 4),
     Then(Caught(Upd(100, "Serveur Build redemarre"), 4), 5),
     Upd(100, "Redemarrage manuel requis pour srv1") >>

Step6Op ==
  << Upd(50, "Suppression de l'ancienne map..."),
     Caught(Call("delete", "srv2", "world"), 3) >>

Step7Op ==
  << Upd(10, "Extraction en cours (polling 5min, timeout 2h)..."),
     Call("extractArchive", "srv2", "archive"),
     Upd(100, "Extraction terminee") >>

Step8Op ==
  << Upd(20, "Suppression archive srv1..."),
     Caught(Call("delete", "srv1", "archive"), 3),
     Upd(40, "Suppression archive srv2..."),
     Caught(Call("delete", "srv2", "archive"), 5),
     Upd(60, "Nettoyage /world/stats..."),
     Caught(Call("delete", "srv2", "world/stats"), 7),
     Upd(80, "Suppression icon.png..."),
     Caught(Call("delete", "srv2", "world/icon.png"), 9) >>

\* restorePlayerData
Step9Op ==
  << Upd(25, "Suppression playerdata srv1..."),
     Caught(Call("delete", "srv2", "world/playerdata"), 3),
     Upd(50, "Restauration playerdata srv2..."),
     Test("pathExists", "", "cache/playerdata", 7),
     Call("uploadFolder", "srv2", "world/playerdata"),
     Then(Upd(100, "Restauration terminee"), 8),
     Upd(90, "Aucune sauvegarde trouvee"),
     Upd(95, "Nettoyage cache temporaire..."),
     Caught(Call("remove", "", "cache"), 10) >>

\* faulty variant: the start of srv2 is caught like the start of srv1
Step10OpBestEffort ==
  << Upd(50, "Demarrage du serveur Staging..."),
     Caught(Call("setPowerState", "srv2", "start"), 3),
     Upd(75, "Attente demarrage complet Staging (45s)..."),
     Call("waitForServerState", "srv2", "running"),
     Upd(100, "Les deux serveurs sont operationnels") >>

Step10Op ==
  << Upd(50, "Demarrage du serveur Staging..."),
     Call("setPowerState", "srv2", "start"),
     Upd(75, "Attente demarrage complet Staging (45s)..."),
     Call("waitForServerState", "srv2", "running"),
     Upd(100, "Les deux serveurs sont operationnels") >>

\* faulty variant: the old world is deleted where the transfer belongs
StepOpDeleteBeforeTransfer(k) ==
  CASE k = 0 -> Step0Op [] k = 1 -> Step1Op [] k = 2 -> Step2Op
    [] k = 3 -> Step3Op [] k = 4 -> Step6Op [] k = 5 -> Step5Op
    [] k = 6 -> Step4Op [] k = 7 -> Step7Op [] k = 8 -> Step8Op
    [] k = 9 -> Step9Op [] OTHER -> Step10Op

\* the operation of the k-th executeStep call of executeTransfer
StepOp(k) ==
  CASE k = 0 -> Step0Op [] k = 1 -> Step1Op [] k = 2 -> Step2Op
    [] k = 3 -> Step3Op [] k = 4 -> Step4Op [] k = 5 -> Step5Op
    [] k = 6 -> Step6Op [] k = 7 -> Step7Op [] k = 8 -> Step8Op
    [] k = 9 -> Step9Op [] OTHER -> Step10Op

\* the catch clauses of backupPlayerData and restorePlayerData wrap the cause
StepWrap(k, e) ==
  CASE k = 3 -> <<"Impossible de sauvegarder playerdata">> \o e
    [] k = 9 -> <<"Impossible de restaurer playerdata">> \o e
    [] OTHER -> e

\* each throw of the callback is an exception of its own, named by its call site
CallbackError(site) == <<"progressCallback threw", site>>

CallError(call, srv, arg) == <<call, srv, arg, "failed">>

(***************************************************************************)
(* Environment answers                                                     *)
(***************************************************************************)
OkFail == {"ok", "fail"}

\* the power endpoint: accepted, 409 conflict, or any other failure
PowerResponses == {"ok", "conflict", "error"}

\* the progress callback handed to executeTransfer returns or throws
CallbackResults == {"returns", "throws"}

\* axios errors of the decompress request (ok: no error)
DecompressResponses ==
  { [ok |-> TRUE,  code |-> "",             timeoutMsg |-> FALSE],
    [ok |-> FALSE, code |-> "ECONNABORTED", timeoutMsg |-> TRUE],
    [ok |-> FALSE, code |-> "ECONNABORTED", timeoutMsg |-> FALSE],
    [ok |-> FALSE, code |-> "ERR_BAD_RESPONSE", timeoutMsg |-> FALSE],
    [ok |-> FALSE, code |-> "ECONNREFUSED", timeoutMsg |-> FALSE] }

Listings == SUBSET EntryNames

\* no answer to the decompress request yet
NoResponse == [ok |-> FALSE, code |-> "none", timeoutMsg |-> FALSE]

(***************************************************************************)
(* Initial state: a TransferService has been constructed                   *)
(***************************************************************************)
NoRollback ==
  [cache |-> "none", archive1 |-> "none", archive2 |-> "none",
   start1 |-> "none", start2 |-> "none", sweep |-> "none"]

TransferIdle ==
  [phase |-> "idle", pct |-> 0, events |-> 0, err |-> <<>>,
   stat |-> "none", cleanup |-> "none"]

\* no phase of a file transfer has begun; times are in milliseconds
NoSpeed == [num |-> 0, den |-> 1]

NoEta == [inf |-> TRUE, num |-> 0, den |-> 1]

ThIdle ==
  [phase |-> "idle", now |-> 0, startTime |-> 0, lastTime |-> 0,
   prevCall |-> -1, lastCall |-> -1,
   totalTransferred |-> 0, lastBytes |-> 0, armTime |-> 0,
   callBytes |-> 0, prevCallBytes |-> 0, speed |-> NoSpeed, eta |-> NoEta]

\* the states Pterodactyl reports for a server
HostStates == {"offline", "starting", "running", "stopping"}

\* no waitForServerState call is in progress
WtIdle == [actual |-> [s \in Servers |-> "none"], outcome |-> "none"]

\* no polling waitForServerState call is in progress
PollIdle ==
  [pc |-> "idle", targetState |-> "none", maxWaitTime |-> 0, maxAttempts |-> 0,
   attempts |-> 0, elapsed |-> 0, lastState |-> "unknown",
   currentState |-> "none", apiWorked |-> FALSE, matched |-> FALSE,
   message |-> <<>>]

\* no downloadFolder or uploadFolder call is in progress
WalkIdle ==
  [pc |-> "idle", op |-> "none", tree |-> <<>>, i |-> 0, j |-> 0,
   done |-> {}, failedAt |-> <<>>, error |-> <<>>]

\* a folder that does not exist, and srv2's world/playerdata before a run:
\* no such folder, or one player file
Absent == [exists |-> FALSE, files |-> {}]

PlayerdataBefore == {Absent, [exists |-> TRUE, files |-> {"p"}]}

\* the player files are not followed: the record stays as it is
NoPd == [tracked |-> FALSE, before |-> Absent, remote |-> Absent, backup |-> {}]

\* the bot after start(): no button pressed, no timer, no message, the
\* fields of lines 47-55 undefined (0)
Presses == 1 .. MaxPresses

BotStarted ==
  [h |-> [p \in Presses |->
            [pc |-> "idle", resolved |-> FALSE, failed |-> FALSE,
             target |-> 0, report |-> "none"]],
   cb |-> [t \in Presses |-> [pc |-> "idle", target |-> 0, user |-> 0]],
   timers |-> {}, fired |-> 0, msgs |-> <<>>,
   currentTrackingMessage |-> 0, currentChannel |-> 0, currentTracker |-> 0,
   embedRecreationInterval |-> 0]

\* no setPowerState call is in progress
PwIdle == [resp |-> "none", outcome |-> "none"]

ExIdle ==
  [pc |-> "idle", filesBefore |-> {}, beforeFailed |-> FALSE, inDirectory |-> {},
   hasArchiveBefore |-> FALSE, pollingAttempts |-> 0, sleeps |-> 0,
   pollLists |-> 0, lastAfter |-> {}, lastListed |-> FALSE,
   allSame |-> TRUE, warned |-> FALSE, response |-> NoResponse]

\* the variables handleTransferButton requires (index.ts lines 363-368)
requiredEnvVars ==
  {"SRV1_BASE_URL", "SRV1_API_KEY", "SRV1_SERVER_ID",
   "SRV2_BASE_URL", "SRV2_API_KEY", "SRV2_SERVER_ID",
   "SRV1_SFTP_HOST", "SRV1_SFTP_USER", "SRV1_SFTP_PASSWORD", "SRV1_SFTP_ROOT",
   "SRV2_SFTP_HOST", "SRV2_SFTP_USER", "SRV2_SFTP_PASSWORD", "SRV2_SFTP_ROOT"}

\* every variable the configuration of a run is read from
ConfigInputs ==
  requiredEnvVars \cup {"SRV1_SFTP_PORT", "SRV2_SFTP_PORT", "TEMP_CACHE_PATH"}

\* the handler has validated a complete environment, built the two
\* ServerConfig records and constructed the TransferService
HandlerStarted ==
  [pc |-> "transfer", env |-> ConfigInputs, missingVars |-> {},
   sftpPort |-> [s \in Servers |-> "env"], tempCachePath |-> "env"]

\* the state in which handleTransferButton h calls executeTransfer, the
\* player files being d
InitWith(h, d) ==
  /\ handler = h
  /\ steps = initializeSteps
  /\ startLog = <<>>
  /\ pc = "exec"
  /\ stepIdx = 0
  /\ ip = 0
  /\ srvConnected = [s \in Servers |-> FALSE]
  /\ archiveName = ""
  /\ error = <<>>
  /\ firstError = <<>>
  /\ rb = NoRollback
  /\ rollbackCount = 0
  /\ rollbackReturned = FALSE
  /\ sftpOpen = [s \in Servers |-> FALSE]
  /\ disconnectCalls = [s \in Servers |-> 0]
  /\ disconnectFailed = [s \in Servers |-> FALSE]
  /\ localFs \in {{}, {"cache"}, {"cache", "cache/playerdata"}}
  /\ powerLog = {}
  /\ remoteDeletes = {}
  /\ transfer = TransferIdle
  /\ ex = ExIdle
  /\ extractOutcome = "none"
  /\ pw = PwIdle
  /\ th = ThIdle
  /\ wt = WtIdle
  /\ poll = PollIdle
  /\ walk = WalkIdle
  /\ pd = d
  /\ bot = BotStarted

Init == InitWith(HandlerStarted, NoPd)

\* a run in which the player files are followed
DataInit ==
  \E before \in PlayerdataBefore :
    InitWith(HandlerStarted,
             [tracked |-> TRUE, before |-> before, remote |-> before, backup |-> {}])

(***************************************************************************)
(* executeStep and the instructions of its operation                       *)
(***************************************************************************)
OpLen == Len(StepOp(stepIdx))

AtInstr(op) ==
  /\ pc = "exec"
  /\ ip \in 1 .. OpLen
  /\ StepOp(stepIdx)[ip].op = op

Instr == StepOp(stepIdx)[ip]

NextIp == IF Instr.next # 0 THEN Instr.next ELSE ip + 1

\* the instruction returned; s is the tracker it leaves
Continue(s) ==
  /\ steps' = s
  /\ startLog' = Started(steps, s, startLog)
  /\ ip' = NextIp
  /\ UNCHANGED <<pc, error, firstError>>

\* faulty variant: the catch marks the 1-based step number used by the log lines
ExecuteStepCatchOffByOne(s, e) ==
  /\ steps' = updateStep(s, stepIdx + 1, "error", <<"Erreur: ">> \o e, 0)
  /\ startLog' = Started(steps, s, startLog)
  /\ pc' = "catch"
  /\ error' = e
  /\ firstError' = e
  /\ UNCHANGED ip

\* executeStep's catch: mark the step 'error' and rethrow to executeTransfer
ExecuteStepCatch(s, e) ==
  /\ steps' = updateStep(s, stepIdx, "error", <<"Erreur: ">> \o e, 0)
  /\ startLog' = Started(steps, s, startLog)
  /\ pc' = "catch"
  /\ error' = e
  /\ firstError' = e
  /\ UNCHANGED ip

\* the instruction threw e with the tracker at s: the enclosing try of the
\* operation handles it, or the operation rejects into executeStep's catch
Raise(s, e) ==
  IF Instr.onThrow # 0
    THEN /\ steps' = s
         /\ startLog' = Started(steps, s, startLog)
         /\ ip' = Instr.onThrow
         /\ UNCHANGED <<pc, error, firstError>>
    ELSE ExecuteStepCatch(s, StepWrap(stepIdx, e))

rollbackVars == <<rb, rollbackCount, rollbackReturned>>
sftpVars == <<srvConnected, sftpOpen, disconnectCalls, disconnectFailed>>
remoteVars == <<powerLog, remoteDeletes, archiveName>>
subVars == <<transfer, ex, extractOutcome>>

\* faulty variant: the operation is invoked with the step left as it was
ExecuteStepBeginNoMark ==
  /\ pc = "exec"
  /\ ip = 0
  /\ steps' = steps
  /\ startLog' = Started(steps, steps', startLog)
  /\ ip' = 1
  /\ UNCHANGED <<bot, pd, walk, poll, wt, handler, th, pw, pc, stepIdx, error, firstError, rollbackVars, sftpVars,
                 remoteVars, subVars, localFs>>

\* line 1119: tracker.updateStep(stepIndex, 'running', 'En cours...', 0)
ExecuteStepBegin ==
  /\ pc = "exec"
  /\ ip = 0
  /\ steps' = updateStep(steps, stepIdx, "running", <<"En cours...">>, 0)
  /\ startLog' = Started(steps, steps', startLog)
  /\ ip' = 1
  /\ UNCHANGED <<bot, pd, walk, poll, wt, handler, th, pw, pc, stepIdx, error, firstError, rollbackVars, sftpVars,
                 remoteVars, subVars, localFs>>

\* faulty variant: the call after step 4 kept its index from before step 5 was inserted
AfterStepOldNumbering(k) ==
  IF k = 1 THEN [pc |-> "connect0", stepIdx |-> k]
  ELSE IF k = NumSteps - 1 THEN [pc |-> "cleanup1", stepIdx |-> k]
  ELSE IF k = 4 THEN [pc |-> "exec", stepIdx |-> 6]
  ELSE [pc |-> "exec", stepIdx |-> k + 1]

\* where executeTransfer goes once executeStep(k) has resolved
AfterStep(k) ==
  IF k = 1 THEN [pc |-> "connect0", stepIdx |-> k]
  ELSE IF k = NumSteps - 1 THEN [pc |-> "cleanup1", stepIdx |-> k]
  ELSE [pc |-> "exec", stepIdx |-> k + 1]

\* line 1125: the operation resolved
ExecuteStepEnd ==
  /\ pc = "exec"
  /\ ip = OpLen + 1
  /\ steps' = updateStep(steps, stepIdx, "completed", <<"Termine">>, 100)
  /\ startLog' = Started(steps, steps', startLog)
  /\ pc' = AfterStep(stepIdx).pc
  /\ stepIdx' = AfterStep(stepIdx).stepIdx
  /\ ip' = 0
  /\ UNCHANGED <<bot, pd, walk, poll, wt, handler, th, pw, error, firstError, rollbackVars, sftpVars, remoteVars,
                 subVars, localFs>>

\* tracker.updateStep(k, 'running', msg, p); progressCallback?.(this.tracker)
ExecUpd ==
  /\ AtInstr("upd")
  /\ LET s == updateStep(steps, stepIdx, "running", <<Instr.msg>>, Instr.progress)
     IN \E cb \in CallbackResults :
          IF cb = "returns" THEN Continue(s) ELSE Raise(s, CallbackError("step"))
  /\ UNCHANGED <<bot, pd, walk, poll, wt, handler, th, pw, stepIdx, rollbackVars, sftpVars, remoteVars, subVars, localFs>>

\* the plain timed sleep of step 0: setTimeout(2000)
ExecWait ==
  /\ AtInstr("call")
  /\ Instr.call = "sleep"
  /\ Continue(steps)
  /\ UNCHANGED <<bot, pd, walk, poll, wt, handler, th, pw, stepIdx, rollbackVars, sftpVars, remoteVars, subVars, localFs>>

InWait ==
  /\ AtInstr("call")
  /\ Instr.call = "waitForServerState"

\* the servers an instruction waits for (Promise.all of both in step 1)
Waited(srv) == IF srv = "both" THEN Servers ELSE {srv}

\* faulty variant: the wait ends by looking at the state and rejects a mismatch
waitForServerStateObserved(targetState, actual) ==
  IF actual = targetState THEN "return" ELSE "throw"

\* PterodactylService.waitForServerState: the promise of the timer is awaited
\* and nothing is read from the panel
waitForServerState(targetState, actual) == "return"

\* the delay elapses while the waited servers are in any state
WaitElapse ==
  /\ InWait
  /\ wt = WtIdle
  /\ \E actual \in [Waited(Instr.srv) -> HostStates] :
       wt' = [actual |-> [s \in Servers |->
                           IF s \in Waited(Instr.srv) THEN actual[s] ELSE "none"],
              outcome |->
                IF \A s \in Waited(Instr.srv) :
                     waitForServerState(Instr.arg, actual[s]) = "return"
                  THEN "return" ELSE "throw"]
  /\ UNCHANGED <<bot, pd, walk, poll, handler, th, pw, steps, startLog, pc, stepIdx, ip, error,
                 firstError, rollbackVars, sftpVars, remoteVars, subVars, localFs>>

\* the awaiting step operation resumes
WaitSettle ==
  /\ InWait
  /\ wt # WtIdle
  /\ IF wt.outcome = "return"
       THEN Continue(steps)
       ELSE Raise(steps, CallError("waitForServerState", Instr.srv, Instr.arg))
  /\ wt' = WtIdle
  /\ UNCHANGED <<bot, pd, walk, poll, handler, th, pw, stepIdx, rollbackVars, sftpVars, remoteVars,
                 subVars, localFs>>

\* faulty variant: the catch has no early return for a 409
setPowerStateConflictRaises(resp) == IF resp = "ok" THEN "return" ELSE "throw"

\* PterodactylService.setPowerState: a 409 is swallowed, anything else raised
setPowerState(resp) == IF resp \in {"ok", "conflict"} THEN "return" ELSE "throw"

InPower ==
  /\ AtInstr("call")
  /\ Instr.call = "setPowerState"

\* lines 54-69: the power request is answered and the catch decides
ExecPower ==
  /\ InPower
  /\ pw = PwIdle
  /\ \E resp \in PowerResponses :
       /\ powerLog' = powerLog \cup {<<Instr.srv, Instr.arg, setPowerState(resp)>>}
       /\ pw' = [resp |-> resp, outcome |-> setPowerState(resp)]
  /\ UNCHANGED <<bot, pd, walk, poll, wt, handler, th, steps, startLog, pc, stepIdx, ip, error, firstError,
                 rollbackVars, sftpVars, remoteDeletes, archiveName, subVars,
                 localFs>>

\* the awaiting step operation resumes: with the next statement, or with the
\* Error thrown at line 69
PowerSettle ==
  /\ InPower
  /\ pw # PwIdle
  /\ IF pw.outcome = "return"
       THEN Continue(steps)
       ELSE Raise(steps, CallError("setPowerState", Instr.srv, Instr.arg))
  /\ pw' = PwIdle
  /\ UNCHANGED <<bot, pd, walk, poll, wt, handler, th, stepIdx, rollbackVars, sftpVars, remoteVars, subVars, localFs>>

\* this.archiveName = await this.srv1Ptero.compressFolder('world')
ExecCompress ==
  /\ AtInstr("call")
  /\ Instr.call = "compressFolder"
  /\ \E r \in OkFail :
       IF r = "ok"
         THEN archiveName' = ArchiveFile /\ Continue(steps)
         ELSE /\ UNCHANGED archiveName
              /\ Raise(steps, CallError("compressFolder", Instr.srv, Instr.arg))
  /\ UNCHANGED <<bot, pd, walk, poll, wt, handler, th, pw, stepIdx, rollbackVars, sftpVars, powerLog, remoteDeletes,
                 subVars, localFs>>

\* the path a delete instruction names: the archive is this.archiveName
DeletePath(arg) == IF arg = "archive" THEN archiveName ELSE arg

\* files written into a folder that may not exist yet
merged(content, files) == [exists |-> TRUE, files |-> content.files \cup files]

\* the player files change only in a run that follows them
Tracked(d, new) == IF d.tracked THEN new ELSE d

\* deleting srv2's world or its playerdata folder takes the player files along
deleted(d, srv, arg) ==
  IF srv = "srv2" /\ arg \in {"world", "world/playerdata"}
    THEN Tracked(d, [d EXCEPT !.remote = Absent]) ELSE d

\* PterodactylService.deleteFile / deleteFolder
ExecDelete ==
  /\ AtInstr("call")
  /\ Instr.call = "delete"
  /\ remoteDeletes' = remoteDeletes \cup {<<Instr.srv, DeletePath(Instr.arg)>>}
  /\ \E r \in OkFail :
       IF r = "ok"
         THEN /\ pd' = deleted(pd, Instr.srv, Instr.arg)
              /\ Continue(steps)
         ELSE /\ UNCHANGED pd
              /\ Raise(steps, CallError("delete", Instr.srv, Instr.arg))
  /\ UNCHANGED <<bot, walk, poll, wt, handler, th, pw, stepIdx, rollbackVars, sftpVars, powerLog, archiveName,
                 subVars, localFs>>

(***************************************************************************)
(* Local staging directory and the SFTP folder walks                       *)
(***************************************************************************)
\* fs.ensureDir creates the directory and its parents
ensureDir(fs, path) ==
  IF path = "cache/playerdata" THEN fs \cup {"cache", "cache/playerdata"}
  ELSE fs \cup {path}

\* fs.remove removes the entry and what is below it
remove(fs, path) ==
  IF path = "cache" THEN fs \ {"cache", "cache/playerdata"} ELSE fs \ {path}

ExecLocalFs ==
  /\ AtInstr("call")
  /\ Instr.call \in {"ensureDir", "remove"}
  /\ \E r \in OkFail :
       IF r = "ok"
         THEN /\ localFs' = IF Instr.call = "ensureDir"
                              THEN ensureDir(localFs, Instr.arg)
                              ELSE remove(localFs, Instr.arg)
              /\ pd' = IF Instr.call = "remove" /\ Instr.arg = "cache"
                         THEN Tracked(pd, [pd EXCEPT !.backup = {}]) ELSE pd
              /\ Continue(steps)
         ELSE /\ UNCHANGED <<localFs, pd>>
              /\ Raise(steps, CallError(Instr.call, "", Instr.arg))
  /\ UNCHANGED <<bot, walk, poll, wt, handler, th, pw, stepIdx, rollbackVars, sftpVars, remoteVars, subVars>>

\* SftpService.downloadFolder('world/playerdata', <cache>/playerdata): the
\* local directory is created first, so a failed walk may leave it behind
ExecDownloadFolder ==
  /\ AtInstr("call")
  /\ Instr.call = "downloadFolder"
  /\ \E r \in OkFail :
       IF r = "ok"
         THEN /\ localFs' = ensureDir(localFs, "cache/playerdata")
              /\ pd' = Tracked(pd, [pd EXCEPT !.backup = @ \cup pd.remote.files])
              /\ Continue(steps)
         ELSE /\ \E got \in SUBSET pd.remote.files :
                   /\ pd' = Tracked(pd, [pd EXCEPT !.backup = @ \cup got])
                   /\ localFs' \in
                        IF got = {}
                          THEN {localFs, ensureDir(localFs, "cache/playerdata")}
                          ELSE {ensureDir(localFs, "cache/playerdata")}
              /\ Raise(steps, CallError("downloadFolder", Instr.srv, Instr.arg))
  /\ UNCHANGED <<bot, walk, poll, wt, handler, th, pw, stepIdx, rollbackVars, sftpVars, remoteVars, subVars>>

\* SftpService.uploadFolder(<cache>/playerdata, 'world/playerdata')
ExecUploadFolder ==
  /\ AtInstr("call")
  /\ Instr.call = "uploadFolder"
  /\ \E r \in OkFail :
       IF r = "ok"
         THEN /\ pd' = Tracked(pd, [pd EXCEPT !.remote = merged(@, pd.backup)])
              /\ Continue(steps)
         ELSE /\ \E put \in SUBSET pd.backup :
                   pd' \in {pd, Tracked(pd, [pd EXCEPT !.remote = merged(@, put)])}
              /\ Raise(steps, CallError("uploadFolder", Instr.srv, Instr.arg))
  /\ UNCHANGED <<bot, walk, poll, wt, handler, th, pw, stepIdx, rollbackVars, sftpVars, remoteVars, subVars, localFs>>

\* SftpService.fileExists (a stat that answers false on any failure) and
\* fs.pathExists of the local backup
ExecTest ==
  /\ AtInstr("test")
  /\ \E b \in BOOLEAN :
       /\ Instr.call = "pathExists" => (b <=> Instr.arg \in localFs)
       /\ Instr.call = "fileExists" => (pd.tracked /\ b => pd.remote.exists)
       /\ ip' = IF b THEN ip + 1 ELSE Instr.alt
  /\ UNCHANGED <<bot, pd, walk, poll, wt, handler, th, pw, steps, startLog, pc, stepIdx, error, firstError, rollbackVars,
                 sftpVars, remoteVars, subVars, localFs>>

(***************************************************************************)
(* SftpService.transferFileDirect, as called by step 4                     *)
(***************************************************************************)
InTransfer ==
  /\ AtInstr("call")
  /\ Instr.call = "transferFileDirect"

\* what lines 212-218 can answer: both calls resolve, the stat of the source
\* file rejects, or fs.ensureDir of the temp directory rejects
StatResults == {"ok", "stat", "ensureDir"}

\* faulty variant: a stat that rejects is ignored and the transfer goes on
afterStatBestEffort(r) == IF r = "ensureDir" THEN "settled" ELSE "download"

\* lines 212-218 sit directly in the outer try: either rejection leaves it
afterStat(r) == IF r = "ok" THEN "download" ELSE "settled"

\* stat of the source file and fs.ensureDir of the temp directory
TransferStat ==
  /\ InTransfer
  /\ transfer.phase = "idle"
  /\ \E r \in StatResults :
       /\ transfer' = [transfer EXCEPT !.phase = afterStat(r), !.stat = r]
       /\ IF afterStat(r) = "download"
            THEN UNCHANGED <<steps, startLog, pc, ip, error, firstError>>
            ELSE Raise(steps, <<"Transfert direct echoue: ", r>>)
  /\ UNCHANGED <<bot, pd, walk, poll, wt, handler, th, pw, stepIdx, rollbackVars, sftpVars, remoteVars, ex,
                 extractOutcome, localFs>>

\* one throttled progress event of the running phase: the handler of lines
\* 949-971 updates step 4 and calls progressCallback
TransferProgress ==
  /\ InTransfer
  /\ transfer.phase \in {"download", "upload"}
  /\ transfer.events < MaxProgressEvents
  /\ \E p \in Percentages, cb \in CallbackResults :
       /\ p >= transfer.pct
       /\ steps' = updateStep(steps, 4, "running", <<transfer.phase, "%">>, p)
       /\ startLog' = Started(steps, steps', startLog)
       /\ transfer' =
            IF cb = "returns"
              THEN [transfer EXCEPT !.pct = p, !.events = @ + 1]
              ELSE [transfer EXCEPT !.phase = "finally",
                                    !.err = CallbackError("transfer")]
  /\ localFs' = IF transfer.phase = "download"
                  THEN localFs \cup {"tempfile"} ELSE localFs
  /\ UNCHANGED <<bot, pd, walk, poll, wt, handler, th, pw, pc, stepIdx, ip, error, firstError, rollbackVars, sftpVars,
                 remoteVars, ex, extractOutcome>>

\* the running phase ends: fastGet / fastPut resolved or rejected
TransferPhaseEnd ==
  /\ InTransfer
  /\ transfer.phase \in {"download", "upload"}
  /\ \E r \in OkFail :
       /\ transfer' =
            IF r = "fail"
              THEN [transfer EXCEPT !.phase = "finally",
                                    !.err = <<transfer.phase, "failed">>]
            ELSE IF transfer.phase = "download"
              THEN [transfer EXCEPT !.phase = "upload", !.pct = 0, !.events = 0]
            ELSE [transfer EXCEPT !.phase = "finally"]
       /\ localFs' \in
            IF transfer.phase = "upload" THEN {localFs}
            ELSE IF r = "ok" THEN {localFs \cup {"tempfile"}}
            ELSE {localFs, localFs \cup {"tempfile"}}
  /\ UNCHANGED <<bot, pd, walk, poll, wt, handler, th, pw, steps, startLog, pc, stepIdx, ip, error, firstError,
                 rollbackVars, sftpVars, remoteVars, ex, extractOutcome>>

\* the activation record once transferFileDirect has settled
TransferSettled(t, cleanup) ==
  [TransferIdle EXCEPT !.phase = "settled", !.stat = t.stat, !.cleanup = cleanup]

\* faulty variant: the removal follows the upload instead of sitting in a finally
TransferFinallyAfterUploadOnly ==
  /\ InTransfer
  /\ transfer.phase = "finally"
  /\ IF transfer.err = <<>>
       THEN /\ \E r \in OkFail :
                 /\ localFs' = IF r = "ok" THEN remove(localFs, "tempfile") ELSE localFs
                 /\ transfer' = TransferSettled(transfer,
                                   IF r = "ok" THEN "removed" ELSE "failed")
            /\ Continue(steps)
       ELSE /\ UNCHANGED localFs
            /\ transfer' = TransferSettled(transfer, "none")
            /\ Raise(steps, <<"Transfert direct echoue: ">> \o transfer.err)
  /\ UNCHANGED <<bot, pd, walk, poll, wt, handler, th, pw, stepIdx, rollbackVars, sftpVars, remoteVars, ex, extractOutcome>>

\* finally { fs.remove(tempFile) } with its own catch, then the outer catch
TransferFinally ==
  /\ InTransfer
  /\ transfer.phase = "finally"
  /\ \E r \in OkFail :
       /\ localFs' = IF r = "ok" THEN remove(localFs, "tempfile") ELSE localFs
       /\ transfer' = TransferSettled(transfer,
                         IF r = "ok" THEN "removed" ELSE "failed")
  /\ IF transfer.err = <<>>
       THEN Continue(steps)
       ELSE Raise(steps, <<"Transfert direct echoue: ">> \o transfer.err)
  /\ UNCHANGED <<bot, pd, walk, poll, wt, handler, th, pw, stepIdx, rollbackVars, sftpVars, remoteVars, ex, extractOutcome>>

(***************************************************************************)
(* PterodactylService.extractArchive, as called by step 7                  *)
(***************************************************************************)
InExtract ==
  /\ AtInstr("call")
  /\ Instr.call = "extractArchive"

\* filesBefore.some(f => f?.name === archivePath)
hasArchive(files, archivePath) == archivePath \in files

\* faulty variant: the filter runs over the wrong list (entries that disappeared)
newFilesSwapped(filesAfter, filesBefore) ==
  {f \in filesBefore : f # "" /\ f \notin filesAfter}

\* filesAfter.filter(a => a && a.name && !filesBefore.some(b => b.name === a.name))
newFiles(filesAfter, filesBefore) ==
  {f \in filesAfter : f # "" /\ f \notin filesBefore}

\* faulty variant: only new entries count, the archive-disappeared test is missing
extractionDetectedNewOnly(filesBefore, hasArchiveBefore, filesAfter, archivePath) ==
  {f \in filesAfter : f # "" /\ f \notin filesBefore} # {}

\* line 238: newFiles.length > 0 || (hasArchiveBefore && !hasArchiveAfter)
extractionDetected(filesBefore, hasArchiveBefore, filesAfter, archivePath) ==
  \/ newFiles(filesAfter, filesBefore) # {}
  \/ hasArchiveBefore /\ ~hasArchive(filesAfter, archivePath)

\* faulty variant: the test looks at the code only
isClientTimeoutCodeOnly(resp) == resp.code = "ECONNABORTED"

\* line 191: error.code === 'ECONNABORTED' && error.message.includes('timeout')
isClientTimeout(resp) == resp.code = "ECONNABORTED" /\ resp.timeoutMsg

\* lines 166-177: the Before snapshot of a directory holding L; a failed
\* listing leaves the snapshot empty
ExtractSnapshot ==
  /\ InExtract
  /\ ex.pc = "idle"
  /\ \E r \in OkFail, L \in Listings :
       LET before == IF r = "ok" THEN L ELSE {}
       IN ex' = [ex EXCEPT !.pc = "request",
                           !.filesBefore = before,
                           !.beforeFailed = (r = "fail"),
                           !.inDirectory = L,
                           !.hasArchiveBefore = hasArchive(before, archiveName)]
  /\ UNCHANGED <<bot, pd, walk, poll, wt, handler, th, pw, steps, startLog, pc, stepIdx, ip, error, firstError,
                 rollbackVars, sftpVars, remoteVars, transfer, extractOutcome,
                 localFs>>

\* faulty variant: the return after a successful request is missing
afterRequestNoReturn(resp) ==
  IF resp.ok THEN "poll"
  ELSE IF isClientTimeout(resp) THEN "poll"
  ELSE "thrown"

\* lines 186-196: return on success, poll on a client timeout, else rethrow
afterRequest(resp) ==
  IF resp.ok THEN "returned"
  ELSE IF isClientTimeout(resp) THEN "poll"
  ELSE "thrown"

\* lines 180-197: the decompress request on the 30 s client
ExtractRequest ==
  /\ InExtract
  /\ ex.pc = "request"
  /\ \E resp \in DecompressResponses :
       ex' = [ex EXCEPT !.pc = afterRequest(resp), !.response = resp]
  /\ UNCHANGED <<bot, pd, walk, poll, wt, handler, th, pw, steps, startLog, pc, stepIdx, ip, error, firstError,
                 rollbackVars, sftpVars, remoteVars, transfer, extractOutcome,
                 localFs>>

\* faulty variant: the loop condition is off by one
pollAgainInclusive(pollingAttempts) == pollingAttempts <= maxPollingAttempts

\* the loop condition of line 207
pollAgain(pollingAttempts) == pollingAttempts < maxPollingAttempts

\* the record after one iteration whose listing answered filesAfter
polled(e, filesAfter) ==
  [e EXCEPT
     !.pollingAttempts = @ + 1,
     !.sleeps = @ + 1,
     !.pollLists = @ + 1,
     !.lastAfter = filesAfter,
     !.lastListed = TRUE,
     !.allSame = @ /\ (filesAfter = e.filesBefore),
     !.pc = IF extractionDetected(e.filesBefore, e.hasArchiveBefore,
                                  filesAfter, archiveName)
              THEN "returned" ELSE "poll"]

\* faulty variant: the listing error leaves the loop through the outer catch
pollFailedRaises(e) ==
  [e EXCEPT
     !.pc = "thrown",
     !.pollingAttempts = @ + 1,
     !.sleeps = @ + 1,
     !.pollLists = @ + 1,
     !.lastAfter = {},
     !.lastListed = FALSE,
     !.allSame = FALSE]

\* the record after one iteration whose listing failed: continue
pollFailed(e) ==
  [e EXCEPT
     !.pollingAttempts = @ + 1,
     !.sleeps = @ + 1,
     !.pollLists = @ + 1,
     !.lastAfter = {},
     !.lastListed = FALSE,
     !.allSame = FALSE]

\* lines 207-248: sleep one interval, count the attempt, list, test
ExtractPoll ==
  /\ InExtract
  /\ ex.pc = "poll"
  /\ pollAgain(ex.pollingAttempts)
  /\ \/ \E L \in Listings : ex' = polled(ex, L)
     \/ ex' = pollFailed(ex)
  /\ UNCHANGED <<bot, pd, walk, poll, wt, handler, th, pw, steps, startLog, pc, stepIdx, ip, error, firstError,
                 rollbackVars, sftpVars, remoteVars, transfer, extractOutcome,
                 localFs>>

\* faulty variant: when the loop runs out the polling starts over
ExtractGiveUpStartsOver ==
  /\ InExtract
  /\ ex.pc = "poll"
  /\ ~pollAgain(ex.pollingAttempts)
  /\ ex' = [ex EXCEPT !.pollingAttempts = 0, !.sleeps = 0, !.pollLists = 0]
  /\ UNCHANGED <<bot, pd, walk, poll, wt, handler, th, pw, steps, startLog, pc, stepIdx, ip, error, firstError,
                 rollbackVars, sftpVars, remoteVars, transfer, extractOutcome,
                 localFs>>

\* lines 250-257: the loop ran out; warn and return normally
ExtractGiveUp ==
  /\ InExtract
  /\ ex.pc = "poll"
  /\ ~pollAgain(ex.pollingAttempts)
  /\ ex' = [ex EXCEPT !.pc = "returned", !.warned = TRUE]
  /\ UNCHANGED <<bot, pd, walk, poll, wt, handler, th, pw, steps, startLog, pc, stepIdx, ip, error, firstError,
                 rollbackVars, sftpVars, remoteVars, transfer, extractOutcome,
                 localFs>>

\* the player files of the source map, which the archive of /world holds
ArchivePlayerdata == {"q"}

\* the call returns to step 7 and its frame is gone; the archive has been
\* unpacked over the destination, or possibly not when that was not seen
ExtractReturn ==
  /\ InExtract
  /\ ex.pc = "returned"
  /\ extractOutcome' = IF ex.warned THEN "unconfirmed" ELSE "confirmed"
  /\ ex' = ExIdle
  /\ pd' \in {Tracked(pd, [pd EXCEPT !.remote = merged(@, ArchivePlayerdata)])} \cup
             (IF ex.warned THEN {pd} ELSE {})
  /\ Continue(steps)
  /\ UNCHANGED <<bot, walk, poll, wt, handler, th, pw, stepIdx, rollbackVars, sftpVars, remoteVars, transfer, localFs>>

\* lines 259-262: the outer catch wraps and rethrows
ExtractThrow ==
  /\ InExtract
  /\ ex.pc = "thrown"
  /\ extractOutcome' = "thrown"
  /\ ex' = ExIdle
  /\ pd' \in {pd, Tracked(pd, [pd EXCEPT !.remote = merged(@, ArchivePlayerdata)])}
  /\ Raise(steps, <<"Impossible d'extraire ", archiveName>>)
  /\ UNCHANGED <<bot, walk, poll, wt, handler, th, pw, stepIdx, rollbackVars, sftpVars, remoteVars, transfer, localFs>>

(***************************************************************************)
(* executeTransfer between steps 1 and 2: the SFTP connections             *)
(***************************************************************************)
\* lines 919-920: step 2 is shown running while the connections are made
ConnectAnnounce ==
  /\ pc = "connect0"
  /\ steps' = updateStep(steps, 2, "running", <<"Connexion SFTP aux serveurs...">>, 0)
  /\ startLog' = Started(steps, steps', startLog)
  /\ \E cb \in CallbackResults :
       IF cb = "returns"
         THEN pc' = "connect1" /\ UNCHANGED <<error, firstError>>
         ELSE /\ pc' = "catch"
              /\ error' = CallbackError("connect")
              /\ firstError' = CallbackError("connect")
  /\ UNCHANGED <<bot, pd, walk, poll, wt, handler, th, pw, stepIdx, ip, rollbackVars, sftpVars, remoteVars, subVars, localFs>>

ConnectTarget(at) == IF at = "connect1" THEN "srv1" ELSE "srv2"

\* lines 922-928: await connect(); srvNConnected = true
Connect ==
  /\ pc \in {"connect1", "connect2"}
  /\ LET s == ConnectTarget(pc)
     IN \E r \in OkFail :
          IF r = "ok"
            THEN /\ srvConnected' = [srvConnected EXCEPT ![s] = TRUE]
                 /\ sftpOpen' = [sftpOpen EXCEPT ![s] = TRUE]
                 /\ IF pc = "connect1"
                      THEN pc' = "connect2" /\ UNCHANGED <<stepIdx, ip>>
                      ELSE pc' = "exec" /\ stepIdx' = 2 /\ ip' = 0
                 /\ UNCHANGED <<error, firstError>>
            ELSE /\ pc' = "catch"
                 /\ error' = CallError("connect", s, "")
                 /\ firstError' = CallError("connect", s, "")
                 /\ UNCHANGED <<srvConnected, sftpOpen, stepIdx, ip>>
  /\ UNCHANGED <<bot, pd, walk, poll, wt, handler, th, pw, steps, startLog, rollbackVars, disconnectCalls,
                 disconnectFailed, remoteVars, subVars, localFs>>

(***************************************************************************)
(* executeTransfer's catch, handleRollback, and the finally                *)
(***************************************************************************)
\* faulty variant: the catch goes to the rollback without marking the step
\* that is still 'running'
CatchBlockNoMark ==
  /\ pc = "catch"
  /\ pc' = "rb_cache"
  /\ rollbackCount' = rollbackCount + 1
  /\ UNCHANGED <<bot, pd, walk, poll, wt, handler, th, pw, steps, startLog, stepIdx, ip, error, firstError, rb,
                 rollbackReturned, sftpVars, remoteVars, subVars, localFs>>

\* lines 1096-1104: mark the step still 'running' as 'error', notify, then
\* roll back; an exception of the callback leaves the catch at once
CatchBlock ==
  /\ pc = "catch"
  /\ LET currentStep == getCurrentStep(steps)
     IN IF currentStep >= 0
          THEN /\ steps' = updateStep(steps, currentStep, "error",
                                      <<"Erreur: ">> \o error, 0)
               /\ \E cb \in CallbackResults :
                    IF cb = "returns"
                      THEN /\ pc' = "rb_cache"
                           /\ rollbackCount' = rollbackCount + 1
                           /\ UNCHANGED error
                      ELSE /\ pc' = "cleanup1"
                           /\ error' = CallbackError("catch")
                           /\ UNCHANGED rollbackCount
          ELSE /\ pc' = "rb_cache"
               /\ rollbackCount' = rollbackCount + 1
               /\ UNCHANGED <<steps, error>>
  /\ startLog' = Started(steps, steps', startLog)
  /\ UNCHANGED <<bot, pd, walk, poll, wt, handler, th, pw, stepIdx, ip, firstError, rb, rollbackReturned, sftpVars,
                 remoteVars, subVars, localFs>>

\* lines 1233-1241: remove the local playerdata cache when it exists
RollbackCache ==
  /\ pc = "rb_cache"
  /\ IF "cache" \in localFs
       THEN \E r \in OkFail :
              /\ localFs' = IF r = "ok" THEN remove(localFs, "cache") ELSE localFs
              /\ pd' = IF r = "ok" THEN Tracked(pd, [pd EXCEPT !.backup = {}]) ELSE pd
              /\ rb' = [rb EXCEPT !.cache = IF r = "ok" THEN "removed" ELSE "failed"]
       ELSE /\ rb' = [rb EXCEPT !.cache = "absent"]
            /\ UNCHANGED <<localFs, pd>>
  /\ pc' = "rb_archive1"
  /\ UNCHANGED <<bot, walk, poll, wt, handler, th, pw, steps, startLog, stepIdx, ip, error, firstError, rollbackCount,
                 rollbackReturned, sftpVars, remoteVars, subVars>>

\* faulty variant: both deletions share one try block, so a failure on srv1 skips srv2
RollbackArchive1SharedTry ==
  /\ pc = "rb_archive1"
  /\ IF archiveName # ""
       THEN /\ remoteDeletes' = remoteDeletes \cup {<<"srv1", archiveName>>}
            /\ \E r \in OkFail :
                 /\ rb' = [rb EXCEPT !.archive1 = IF r = "ok" THEN "deleted" ELSE "failed"]
                 /\ pc' = IF r = "ok" THEN "rb_archive2" ELSE "rb_restart"
       ELSE /\ rb' = [rb EXCEPT !.archive1 = "skipped", !.archive2 = "skipped"]
            /\ pc' = "rb_restart"
            /\ UNCHANGED remoteDeletes
  /\ UNCHANGED <<bot, pd, walk, poll, wt, handler, th, pw, steps, startLog, stepIdx, ip, error, firstError, rollbackCount,
                 rollbackReturned, sftpVars, powerLog, archiveName, subVars,
                 localFs>>

\* lines 1243-1250: if (this.archiveName) delete it on srv1
RollbackArchive1 ==
  /\ pc = "rb_archive1"
  /\ IF archiveName # ""
       THEN /\ remoteDeletes' = remoteDeletes \cup {<<"srv1", archiveName>>}
            /\ \E r \in OkFail :
                 rb' = [rb EXCEPT !.archive1 = IF r = "ok" THEN "deleted" ELSE "failed"]
            /\ pc' = "rb_archive2"
       ELSE /\ rb' = [rb EXCEPT !.archive1 = "skipped", !.archive2 = "skipped"]
            /\ pc' = "rb_restart"
            /\ UNCHANGED remoteDeletes
  /\ UNCHANGED <<bot, pd, walk, poll, wt, handler, th, pw, steps, startLog, stepIdx, ip, error, firstError, rollbackCount,
                 rollbackReturned, sftpVars, powerLog, archiveName, subVars,
                 localFs>>

\* faulty variant: the second delete goes to srv1 again
RollbackArchive2SameHost ==
  /\ pc = "rb_archive2"
  /\ remoteDeletes' = remoteDeletes \cup {<<"srv1", archiveName>>}
  /\ \E r \in OkFail :
       rb' = [rb EXCEPT !.archive2 = IF r = "ok" THEN "deleted" ELSE "failed"]
  /\ pc' = "rb_restart"
  /\ UNCHANGED <<bot, pd, walk, poll, wt, handler, th, pw, steps, startLog, stepIdx, ip, error, firstError, rollbackCount,
                 rollbackReturned, sftpVars, powerLog, archiveName, subVars,
                 localFs>>

\* lines 1252-1258: then on srv2, inside the same if
RollbackArchive2 ==
  /\ pc = "rb_archive2"
  /\ remoteDeletes' = remoteDeletes \cup {<<"srv2", archiveName>>}
  /\ \E r \in OkFail :
       rb' = [rb EXCEPT !.archive2 = IF r = "ok" THEN "deleted" ELSE "failed"]
  /\ pc' = "rb_restart"
  /\ UNCHANGED <<bot, pd, walk, poll, wt, handler, th, pw, steps, startLog, stepIdx, ip, error, firstError, rollbackCount,
                 rollbackReturned, sftpVars, powerLog, archiveName, subVars,
                 localFs>>

\* lines 1261-1275: Promise.all of the two starts, each with its own catch
RollbackRestart ==
  /\ pc = "rb_restart"
  /\ \E r1 \in PowerResponses, r2 \in PowerResponses :
       /\ powerLog' = powerLog \cup {<<"srv1", "start", setPowerState(r1)>>,
                                     <<"srv2", "start", setPowerState(r2)>>}
       /\ rb' = [rb EXCEPT
                   !.start1 = IF setPowerState(r1) = "return" THEN "started" ELSE "failed",
                   !.start2 = IF setPowerState(r2) = "return" THEN "started" ELSE "failed"]
  /\ pc' = "rb_sweep"
  /\ UNCHANGED <<bot, pd, walk, poll, wt, handler, th, pw, steps, startLog, stepIdx, ip, error, firstError, rollbackCount,
                 rollbackReturned, sftpVars, remoteDeletes, archiveName, subVars,
                 localFs>>

\* lines 1277-1302: sweep transfer_* files older than 5 minutes, then return
RollbackSweep ==
  /\ pc = "rb_sweep"
  /\ \E r \in OkFail :
       /\ rb' = [rb EXCEPT !.sweep = IF r = "ok" THEN "swept" ELSE "failed"]
       /\ localFs' \in IF r = "ok"
                         THEN {localFs, remove(localFs, "tempfile")}
                         ELSE {localFs}
  /\ rollbackReturned' = TRUE
  /\ pc' = "cleanup1"
  /\ UNCHANGED <<bot, pd, walk, poll, wt, handler, th, pw, steps, startLog, stepIdx, ip, error, firstError, rollbackCount,
                 sftpVars, remoteVars, subVars>>

\* faulty variant: the second guarded block closes srv1 again
CleanupTargetSame(at) == "srv1"

\* the connection closed by the guarded block at `at`
CleanupTarget(at) == IF at = "cleanup1" THEN "srv1" ELSE "srv2"

\* where control goes after the disconnect guarded at `at`
AfterCleanup(at, err) ==
  IF at = "cleanup1" THEN "cleanup2"
  ELSE IF err = <<>> THEN "resolved" ELSE "rejected"

\* lines 1309-1335 with SftpService.disconnect: each close is guarded by its
\* flag and swallows its own failure; after the second, the promise settles
Cleanup ==
  /\ pc \in {"cleanup1", "cleanup2"}
  /\ LET s == CleanupTarget(pc)
     IN IF srvConnected[s]
          THEN /\ disconnectCalls' = [disconnectCalls EXCEPT ![s] = @ + 1]
               /\ \E r \in OkFail :
                    /\ sftpOpen' = [sftpOpen EXCEPT ![s] = (r = "fail")]
                    /\ disconnectFailed' = [disconnectFailed EXCEPT ![s] = (r = "fail")]
          ELSE UNCHANGED <<disconnectCalls, sftpOpen, disconnectFailed>>
  /\ pc' = AfterCleanup(pc, error)
  /\ UNCHANGED <<bot, pd, walk, poll, wt, handler, th, pw, steps, startLog, stepIdx, ip, srvConnected, error, firstError,
                 rollbackVars, remoteVars, subVars, localFs>>

Next ==
  \/ ExecuteStepBegin
  \/ ExecuteStepEnd
  \/ ExecUpd
  \/ ExecWait
  \/ WaitElapse
  \/ WaitSettle
  \/ ExecPower
  \/ PowerSettle
  \/ ExecCompress
  \/ ExecDelete
  \/ ExecLocalFs
  \/ ExecDownloadFolder
  \/ ExecUploadFolder
  \/ ExecTest
  \/ TransferStat
  \/ TransferProgress
  \/ TransferPhaseEnd
  \/ TransferFinally
  \/ ExtractSnapshot
  \/ ExtractRequest
  \/ ExtractPoll
  \/ ExtractGiveUp
  \/ ExtractReturn
  \/ ExtractThrow
  \/ ConnectAnnounce
  \/ Connect
  \/ CatchBlock
  \/ RollbackCache
  \/ RollbackArchive1
  \/ RollbackArchive2
  \/ RollbackRestart
  \/ RollbackSweep
  \/ Cleanup

Spec == Init /\ [][Next]_vars

DataSpec == DataInit /\ [][Next]_vars

(***************************************************************************)
(* ProgressTracker on its own: any caller may update any step              *)
(***************************************************************************)
Statuses == {"pending", "running", "completed", "error"}

TrackerInit ==
  /\ Init
  /\ localFs = {}

\* updateStep(stepIndex, status, message, progress) with arguments of the
\* caller's choice, on one of the first steps or on an index outside the array
TrackerUpdate ==
  /\ \E i \in (-1 .. (MaxFreeSteps - 1)) \cup {NumSteps},
        status \in Statuses, progress \in Percentages :
       steps' = updateStep(steps, i, status, <<"message">>, progress)
  /\ UNCHANGED <<bot, pd, walk, poll, wt, handler, th, startLog, pc, stepIdx, ip, error, firstError, rollbackVars,
                 sftpVars, remoteVars, subVars, pw, localFs>>

\* updateStep(i, 'completed', 'Termine', 100) on the later steps, in order
TrackerComplete ==
  /\ \E i \in MaxFreeSteps .. (NumSteps - 1) :
       /\ steps[i].status = "pending"
       /\ i > MaxFreeSteps => steps[i - 1].status = "completed"
       /\ steps' = updateStep(steps, i, "completed", <<"Termine">>, 100)
  /\ UNCHANGED <<bot, pd, walk, poll, wt, handler, th, startLog, pc, stepIdx, ip, error, firstError, rollbackVars,
                 sftpVars, remoteVars, subVars, pw, localFs>>

TrackerNext ==
  \/ TrackerUpdate
  \/ TrackerComplete

TrackerSpec == TrackerInit /\ [][TrackerNext]_vars

(***************************************************************************)
(* The progress throttle of downloadFileWithProgress and                   *)
(* uploadFileWithProgress, against a clock                                 *)
(***************************************************************************)
\* the amounts of time that can pass between two events
TickSteps == {249, 250}

ThrottleInit ==
  /\ Init
  /\ localFs = {}

throttleRest ==
  <<steps, startLog, pc, stepIdx, ip, error, firstError, rollbackVars,
    sftpVars, remoteVars, subVars, pw, localFs, handler, wt, poll, walk, pd, bot>>

\* Date.now() moves on
Tick ==
  /\ \E d \in TickSteps :
       /\ th.now + d <= MaxClock
       /\ th' = [th EXCEPT !.now = @ + d]
  /\ UNCHANGED throttleRest

\* transferFileDirect enters a phase: the download first, the upload after it
PhaseBegin ==
  /\ th.phase \in {"idle", "downloaded"}
  /\ th' = [th EXCEPT
              !.phase = IF th.phase = "idle" THEN "downloadStat" ELSE "uploadStat",
              !.startTime = th.now,
              !.prevCall = -1,
              !.lastCall = -1,
              !.totalTransferred = 0,
              !.lastBytes = 0,
              !.callBytes = 0,
              !.prevCallBytes = 0,
              !.speed = NoSpeed,
              !.eta = NoEta]
  /\ UNCHANGED throttleRest

\* lines 89-91 and 153-155, after the stat: let lastTime = Date.now()
ThrottleArm ==
  /\ th.phase \in {"downloadStat", "uploadStat"}
  /\ th' = [th EXCEPT
              !.phase = IF th.phase = "downloadStat" THEN "download" ELSE "upload",
              !.lastTime = th.now,
              !.armTime = th.now,
              !.lastBytes = 0]
  /\ UNCHANGED throttleRest

\* faulty variant: the difference in milliseconds is compared with 0.5
shouldReportMilliseconds(now, lastTime) == 2 * (now - lastTime) >= 1

\* lines 97 and 100: timeDiff = (now - lastTime) / 1000; timeDiff >= 0.5
shouldReport(now, lastTime) == 2 * (now - lastTime) >= 1000

\* the sizes of the chunks the transport reports
ChunkSizes == {0, 1, 2}

\* faulty variant: the bytes of the previous event are not subtracted
speedOfAllBytes(totalTransferred, lastBytes, now, lastTime) ==
  IF now - lastTime > 0
    THEN [num |-> 1000 * totalTransferred, den |-> now - lastTime]
    ELSE NoSpeed

\* lines 97-101: speed = timeDiff > 0 ? bytesDiff / timeDiff : 0, in bytes
\* per second, kept as the fraction num / den
speedOf(totalTransferred, lastBytes, now, lastTime) ==
  IF now - lastTime > 0
    THEN [num |-> 1000 * (totalTransferred - lastBytes), den |-> now - lastTime]
    ELSE NoSpeed

\* faulty variant: the remaining bytes are multiplied by the speed
etaOfProduct(total, totalTransferred, speed) ==
  IF speed.num > 0
    THEN [inf |-> FALSE, num |-> (total - totalTransferred) * speed.num,
          den |-> speed.den]
    ELSE NoEta

\* line 103: eta = speed > 0 ? (total - totalTransferred) / speed : Infinity
etaOf(total, totalTransferred, speed) ==
  IF speed.num > 0
    THEN [inf |-> FALSE, num |-> (total - totalTransferred) * speed.den,
          den |-> speed.num]
    ELSE NoEta

\* the transport reports a chunk: the step handler of lines 95-122 / 159-186
StepChunk ==
  /\ th.phase \in {"download", "upload"}
  /\ \E chunk \in ChunkSizes :
       LET totalTransferred == th.totalTransferred + chunk
           speed == speedOf(totalTransferred, th.lastBytes, th.now, th.lastTime)
       IN /\ totalTransferred <= FileSize
          /\ th' = IF shouldReport(th.now, th.lastTime)
                     THEN [th EXCEPT
                             !.totalTransferred = totalTransferred,
                             !.prevCall = th.lastCall,
                             !.lastCall = th.now,
                             !.prevCallBytes = th.callBytes,
                             !.callBytes = totalTransferred,
                             !.speed = speed,
                             !.eta = etaOf(FileSize, totalTransferred, speed),
                             !.lastTime = th.now,
                             !.lastBytes = totalTransferred]
                     ELSE [th EXCEPT !.totalTransferred = totalTransferred]
  /\ UNCHANGED throttleRest

\* fastGet / fastPut settled
PhaseEnd ==
  /\ th.phase \in {"download", "upload"}
  /\ th' = [th EXCEPT
              !.phase = IF th.phase = "download" THEN "downloaded" ELSE "done"]
  /\ UNCHANGED throttleRest

ThrottleNext ==
  \/ Tick
  \/ PhaseBegin
  \/ ThrottleArm
  \/ StepChunk
  \/ PhaseEnd

ThrottleSpec == ThrottleInit /\ [][ThrottleNext]_vars

(***************************************************************************)
(* MinecraftTransferBot.handleTransferButton up to executeTransfer         *)
(***************************************************************************)
handlerRest ==
  <<steps, startLog, pc, stepIdx, ip, error, firstError, rollbackVars,
    sftpVars, remoteVars, subVars, pw, th, localFs, wt, poll, walk, pd, bot>>

\* the button is pressed under an environment with a few variables unset
\* (an empty value counts as unset: !process.env[varName])
HandlerInit ==
  /\ \E unset \in SUBSET ConfigInputs :
       /\ Cardinality(unset) <= MaxMissing
       /\ InitWith([HandlerStarted EXCEPT
                      !.pc = "validate",
                      !.env = ConfigInputs \ unset,
                      !.sftpPort = [s \in Servers |-> "none"],
                      !.tempCachePath = "none"], NoPd)
  /\ localFs = {}

\* faulty variant: the list lacks the SFTP roots
missingVarsNoRoots(env) ==
  (requiredEnvVars \ {"SRV1_SFTP_ROOT", "SRV2_SFTP_ROOT"}) \ env

\* line 370: requiredEnvVars.filter(varName => !process.env[varName])
missingVars(env) == requiredEnvVars \ env

\* lines 362-381: with a missing variable, reply with the error and return
ValidateEnv ==
  /\ handler.pc = "validate"
  /\ handler' = [handler EXCEPT
                   !.missingVars = missingVars(handler.env),
                   !.pc = IF missingVars(handler.env) # {}
                            THEN "aborted" ELSE "configured"]
  /\ UNCHANGED handlerRest

\* process.env.SRVn_SFTP_PORT || '2022'
sftpPortOf(env, s) ==
  IF (IF s = "srv1" THEN "SRV1_SFTP_PORT" ELSE "SRV2_SFTP_PORT") \in env
    THEN "env" ELSE "2022"

\* lines 383-403: the two ServerConfig records
BuildConfigs ==
  /\ handler.pc = "configured"
  /\ handler' = [handler EXCEPT
                   !.sftpPort = [s \in Servers |-> sftpPortOf(handler.env, s)],
                   !.pc = "announce"]
  /\ UNCHANGED handlerRest

\* lines 405-434: the reply, the channel test and the tracking message; a
\* rejected Discord call goes to the handler's catch, an unusable channel
\* returns
Announce ==
  /\ handler.pc = "announce"
  /\ \E r \in {"ok", "noChannel", "fail"} :
       handler' = [handler EXCEPT
                     !.pc = IF r = "ok" THEN "create"
                            ELSE IF r = "noChannel" THEN "returned"
                            ELSE "caught"]
  /\ UNCHANGED handlerRest

\* process.env.TEMP_CACHE_PATH || '/tmp/playerdata_backup'
tempCachePathOf(env) ==
  IF "TEMP_CACHE_PATH" \in env THEN "env" ELSE "/tmp/playerdata_backup"

\* line 438 with TransferService's constructor (part_004 lines 866-876)
CreateService ==
  /\ handler.pc = "create"
  /\ handler' = [handler EXCEPT
                   !.tempCachePath = tempCachePathOf(handler.env),
                   !.pc = "created"]
  /\ UNCHANGED handlerRest

\* line 454: executeTransfer is called; its first remote calls follow
StartTransfer ==
  /\ handler.pc = "created"
  /\ handler' = [handler EXCEPT !.pc = "transfer"]
  /\ UNCHANGED handlerRest

HandlerNext ==
  \/ ValidateEnv
  \/ BuildConfigs
  \/ Announce
  \/ CreateService
  \/ StartTransfer

HandlerSpec == HandlerInit /\ [][HandlerNext]_vars

(***************************************************************************)
(* PterodactylService.waitForServerState, polling version                  *)
(***************************************************************************)
pollRest ==
  <<steps, startLog, pc, stepIdx, ip, error, firstError, rollbackVars,
    sftpVars, remoteVars, subVars, pw, th, localFs, handler, wt, walk, pd, bot>>

PollInit == Init /\ localFs = {}

\* lines 409-415: maxAttempts = Math.floor(maxWaitTime / 3000)
PollCall ==
  /\ poll = PollIdle
  /\ \E target \in {"offline", "running"}, half \in 0 .. 2 * MaxWaitTicks + 1 :
       poll' = [PollIdle EXCEPT
                  !.pc = "while",
                  !.targetState = target,
                  !.maxWaitTime = 1500 * half,
                  !.maxAttempts = (1500 * half) \div 3000]
  /\ UNCHANGED pollRest

\* line 417: the loop condition; attempts++ when the body is entered
PollWhile ==
  /\ poll.pc = "while"
  /\ poll' = IF poll.elapsed < poll.maxWaitTime /\ poll.attempts < poll.maxAttempts
               THEN [poll EXCEPT !.pc = "query", !.attempts = @ + 1]
               ELSE [poll EXCEPT !.pc = "timeout"]
  /\ UNCHANGED pollRest

\* what one endpoint answers: a current_state, a body without one, an error
EndpointAnswers == HostStates \cup {"nostate", "throws"}

\* lines 421-442: the resources endpoint, and the server endpoint only when
\* the first request threw
queryState(resources, main) ==
  IF resources \in HostStates THEN resources
  ELSE IF resources = "nostate" THEN "unknown"
  ELSE IF main \in HostStates THEN main
  ELSE "unknown"

\* faulty variant: a failed query leaves the state seen before in place
lastStateKeepKnown(lastState, currentState) ==
  IF currentState # lastState /\ currentState # "unknown"
    THEN currentState ELSE lastState

\* lines 445-448: if (currentState !== lastState) lastState = currentState
lastStateOf(lastState, currentState) ==
  IF currentState # lastState THEN currentState ELSE lastState

\* lines 419-462: one query and the two returns of the loop body
PollQuery ==
  /\ poll.pc = "query"
  /\ \E resources \in EndpointAnswers, main \in EndpointAnswers :
       LET currentState == queryState(resources, main)
           apiWorked == currentState # "unknown"
           q == [poll EXCEPT
                   !.currentState = currentState,
                   !.apiWorked = apiWorked,
                   !.lastState = lastStateOf(poll.lastState, currentState)]
       IN poll' =
            IF currentState = poll.targetState
              THEN [q EXCEPT !.pc = "returned", !.matched = TRUE]
            ELSE IF ~apiWorked /\ poll.targetState = "offline" /\ poll.attempts > 5
              THEN [q EXCEPT !.pc = "returned"]
            ELSE [q EXCEPT !.pc = "sleep"]
  /\ UNCHANGED pollRest

\* line 478: setTimeout(3000); the requests of the iteration took some time
PollSleep ==
  /\ poll.pc = "sleep"
  /\ \E requests \in {0, 1500} :
       poll' = [poll EXCEPT !.pc = "while", !.elapsed = @ + 3000 + requests]
  /\ UNCHANGED pollRest

\* lines 481-491: after the loop
PollTimeout ==
  /\ poll.pc = "timeout"
  /\ poll' = IF poll.targetState = "offline" /\ poll.attempts >= 10
               THEN [poll EXCEPT !.pc = "returned"]
               ELSE [poll EXCEPT
                       !.pc = "thrown",
                       !.message = <<"Timeout", poll.targetState,
                                     poll.maxWaitTime, poll.lastState>>]
  /\ UNCHANGED pollRest

PollNext ==
  \/ PollCall
  \/ PollWhile
  \/ PollQuery
  \/ PollSleep
  \/ PollTimeout

PollSpec == PollInit /\ [][PollNext]_vars

\* timers fire and requests are answered: a run that can take a step does
FairSpec == Spec /\ WF_vars(Next)

(***************************************************************************)
(* SftpService.downloadFolder and uploadFolder                             *)
(***************************************************************************)
walkRest ==
  <<steps, startLog, pc, stepIdx, ip, error, firstError, rollbackVars,
    sftpVars, remoteVars, subVars, pw, th, localFs, handler, wt, poll, pd, bot>>

WalkInit == Init /\ localFs = {}

\* a folder as its listing: 0 is a file, n + 1 a sub-folder holding n files
Trees == UNION {[1 .. n -> 0 .. MaxSubFiles + 1] : n \in 0 .. MaxEntries}

\* the catch of either method wraps what it caught
WalkWrap(op, path, e) ==
  <<IF op = "download" THEN "Impossible de telecharger le dossier "
                       ELSE "Impossible d'uploader le dossier ", path>> \o e

\* the entry the loops are at: <<i>> in the folder, <<i, j>> in its i-th entry
WalkAt(w) == IF w.j = 0 THEN <<w.i>> ELSE <<w.i, w.j>>

\* the exception raised at path passes the catch of every open call
WalkThrow(w, path, cause) ==
  [w EXCEPT
     !.pc = "thrown",
     !.failedAt = path,
     !.error = IF Len(path) = 2
                 THEN WalkWrap(w.op, <<>>, WalkWrap(w.op, <<path[1]>>, cause))
                 ELSE WalkWrap(w.op, <<>>, cause)]

\* the calls before the loop: ensureDir and list, or mkdir (its failure is
\* swallowed) and readdir
WalkPrologue(op) ==
  IF op = "download" THEN {"ok", "ensureDir", "list"} ELSE {"ok", "mkdir", "readdir"}

\* lines 271-279 and 302-315
WalkCall ==
  /\ walk = WalkIdle
  /\ \E op \in {"download", "upload"}, tree \in Trees :
       \E r \in WalkPrologue(op) :
         LET w == [WalkIdle EXCEPT !.pc = "loop", !.op = op, !.tree = tree, !.i = 1]
         IN walk' = IF r \in {"ok", "mkdir"} THEN w ELSE WalkThrow(w, <<0>>, <<r>>)
  /\ UNCHANGED walkRest

WalkNextEntry(w) ==
  IF w.j = 0 THEN [w EXCEPT !.i = @ + 1] ELSE [w EXCEPT !.j = @ + 1]

\* faulty variant: a file that fails is skipped
afterFileFailureSkips(w, cause) == WalkNextEntry(w)

\* a failed file leaves the loop through the catch of lines 296 and 332
afterFileFailure(w, cause) == WalkThrow(w, WalkAt(w), cause)

\* the loops are at a file (in a sub-folder every entry is one)
WalkAtFile ==
  /\ walk.pc = "loop"
  /\ \/ walk.j = 0 /\ walk.i \in DOMAIN walk.tree /\ walk.tree[walk.i] = 0
     \/ walk.j >= 1 /\ walk.j <= walk.tree[walk.i] - 1

\* lines 286-291 and 317-326: one file; uploadFolder stats the entry first
WalkFile ==
  /\ WalkAtFile
  /\ \E r \in IF walk.op = "upload" THEN {"ok", "stat", "uploadFile"}
                                      ELSE {"ok", "downloadFile"} :
       walk' = IF r = "ok"
                 THEN [WalkNextEntry(walk) EXCEPT !.done = @ \cup {WalkAt(walk)}]
                 ELSE afterFileFailure(walk, <<r>>)
  /\ UNCHANGED walkRest

\* lines 281-285 and 321-323: the recursive call for a sub-folder
WalkEnter ==
  /\ walk.pc = "loop"
  /\ walk.j = 0
  /\ walk.i \in DOMAIN walk.tree
  /\ walk.tree[walk.i] >= 1
  /\ \E r \in WalkPrologue(walk.op) \cup
               (IF walk.op = "upload" THEN {"stat"} ELSE {}) :
       walk' = IF r \in {"ok", "mkdir"} THEN [walk EXCEPT !.j = 1]
               ELSE IF r = "stat" THEN WalkThrow(walk, <<walk.i>>, <<r>>)
               ELSE WalkThrow(walk, <<walk.i, 0>>, <<r>>)
  /\ UNCHANGED walkRest

\* a loop has run through its listing: the call returns to its caller
WalkLeave ==
  /\ walk.pc = "loop"
  /\ \/ /\ walk.j >= 1
        /\ walk.j > walk.tree[walk.i] - 1
        /\ walk' = [walk EXCEPT !.i = @ + 1, !.j = 0]
     \/ /\ walk.j = 0
        /\ walk.i > Len(walk.tree)
        /\ walk' = [walk EXCEPT !.pc = "returned"]
  /\ UNCHANGED walkRest

WalkNext ==
  \/ WalkCall
  \/ WalkFile
  \/ WalkEnter
  \/ WalkLeave

WalkSpec == WalkInit /\ [][WalkNext]_vars

(***************************************************************************)
(* MinecraftTransferBot: presses of the 'start_transfer' button and the    *)
(* embed-recreation timers. Every handler and every timer callback runs to *)
(* its next await; Discord rejects a request only when its message is      *)
(* deleted.                                                                *)
(***************************************************************************)
botRest ==
  <<steps, startLog, pc, stepIdx, ip, error, firstError, rollbackVars,
    sftpVars, remoteVars, subVars, pw, th, localFs, handler, wt, poll, walk,
    pd>>

BotInit == Init /\ localFs = {}

\* a message of the channel: whose request its content names, which text it
\* carries ("suivi", "progress" and "recreated" hold 'Suivi du transfert
\* v3.2 demande par <user>'; "success" and "error" do not)
Message(user, kind) == [user |-> user, kind |-> kind, deleted |-> FALSE]

Suivi == {"suivi", "progress", "recreated"}

\* message.edit(...) as Discord applies it: a deleted message stays as it is
\* and the request is rejected
edit(msgs, id, user, kind) ==
  IF msgs[id].deleted THEN msgs ELSE [msgs EXCEPT ![id] = Message(user, kind)]

\* lines 173-200: the new interval's handle replaces the field's value
startEmbedRecreation(b, t) ==
  [b EXCEPT !.embedRecreationInterval = t, !.timers = @ \cup {t}]

\* lines 202-211: the interval the field holds is cleared, the four fields
\* become undefined (currentUser is assigned and cleared with currentChannel)
stopEmbedRecreation(b) ==
  [b EXCEPT !.timers = @ \ {b.embedRecreationInterval},
            !.embedRecreationInterval = 0,
            !.currentTrackingMessage = 0,
            !.currentChannel = 0,
            !.currentTracker = 0]

\* lines 344-348 and 359-407: every press calls handleTransferButton, which
\* validates the environment and calls interaction.reply
Press ==
  /\ \E p \in Presses :
       /\ bot.h[p].pc = "idle"
       /\ p > 1 => bot.h[p - 1].pc # "idle"
       /\ bot' = [bot EXCEPT !.h[p].pc = "reply"]
  /\ UNCHANGED botRest

\* lines 407-433: the reply is sent, the channel and the user are saved and
\* channel.send is called
Reply ==
  /\ \E p \in Presses :
       /\ bot.h[p].pc = "reply"
       /\ bot' = [bot EXCEPT !.h[p].pc = "send", !.currentChannel = p]
  /\ UNCHANGED botRest

\* lines 430-455: the tracking message exists and is saved, the timers are
\* started and executeTransfer is called
TrackingSent ==
  /\ \E p \in Presses :
       /\ bot.h[p].pc = "send"
       /\ LET b == [bot EXCEPT !.msgs = Append(@, Message(p, "suivi")),
                               !.currentTrackingMessage = Len(bot.msgs) + 1,
                               !.h[p].pc = "run"]
          IN bot' = startEmbedRecreation(b, p)
  /\ UNCHANGED botRest

\* lines 455-474: the progress callback saves the tracker and, when five
\* seconds have passed, edits the message the field holds; an undefined
\* field throws a TypeError through executeTransfer
ProgressCallback ==
  /\ \E p \in Presses, due \in BOOLEAN :
       /\ bot.h[p].pc = "run"
       /\ LET b == [bot EXCEPT !.currentTracker = p]
          IN bot' = IF ~due THEN b
                    ELSE IF bot.currentTrackingMessage = 0
                      THEN [b EXCEPT !.h[p].pc = "finally",
                                     !.h[p].failed = TRUE]
                    ELSE [b EXCEPT !.msgs = edit(@, bot.currentTrackingMessage,
                                                 p, "progress")]
  /\ UNCHANGED botRest

\* lines 455 and 477-483: executeTransfer resolves and the success edit of
\* the message the field holds is requested
Resolve ==
  /\ \E p \in Presses :
       /\ bot.h[p].pc = "run"
       /\ bot' = IF bot.currentTrackingMessage = 0
                   THEN [bot EXCEPT !.h[p].pc = "finally",
                                    !.h[p].resolved = TRUE,
                                    !.h[p].failed = TRUE]
                   ELSE [bot EXCEPT !.h[p].pc = "edit",
                                    !.h[p].resolved = TRUE,
                                    !.h[p].target = bot.currentTrackingMessage]
  /\ UNCHANGED botRest

\* line 455: executeTransfer rejects
Reject ==
  /\ \E p \in Presses :
       /\ bot.h[p].pc = "run"
       /\ bot' = [bot EXCEPT !.h[p].pc = "finally", !.h[p].failed = TRUE]
  /\ UNCHANGED botRest

\* lines 480-485: the success edit settles
SuccessEdit ==
  /\ \E p \in Presses :
       /\ bot.h[p].pc = "edit"
       /\ LET m == bot.h[p].target
          IN bot' = IF bot.msgs[m].deleted
                      THEN [bot EXCEPT !.h[p].pc = "finally",
                                       !.h[p].target = 0,
                                       !.h[p].failed = TRUE]
                      ELSE [bot EXCEPT !.h[p].pc = "finally",
                                       !.h[p].target = 0,
                                       !.h[p].report = "success",
                                       !.msgs = edit(@, m, p, "success")]
  /\ UNCHANGED botRest

\* lines 487-491: the finally block
Finally ==
  /\ \E p \in Presses :
       /\ bot.h[p].pc = "finally"
       /\ bot' = [stopEmbedRecreation(bot) EXCEPT
                    !.h[p].pc = IF bot.h[p].failed THEN "catch" ELSE "done"]
  /\ UNCHANGED botRest

\* lines 493-511: the outer catch stops the timers again and fetches the
\* channel's last messages
Catch ==
  /\ \E p \in Presses :
       /\ bot.h[p].pc = "catch"
       /\ bot' = [stopEmbedRecreation(bot) EXCEPT !.h[p].pc = "fetch"]
  /\ UNCHANGED botRest

\* lines 511-530: the newest message that names this user's tracking gets
\* the error embed; without one a new error message is sent
ErrorReport ==
  /\ \E p \in Presses :
       /\ bot.h[p].pc = "fetch"
       /\ LET found == {i \in DOMAIN bot.msgs :
                          /\ ~bot.msgs[i].deleted
                          /\ bot.msgs[i].user = p
                          /\ bot.msgs[i].kind \in Suivi}
              trackingMessage == CHOOSE i \in found : \A j \in found : j <= i
          IN bot' = [bot EXCEPT
                       !.h[p].pc = "done",
                       !.h[p].report = "error",
                       !.msgs = IF found # {}
                                  THEN edit(@, trackingMessage, p, "error")
                                  ELSE Append(@, Message(p, "error"))]
  /\ UNCHANGED botRest

\* lines 174-183: an interval that was not cleared fires; with the four
\* fields set its callback requests the deletion of the tracking message
Fire ==
  /\ bot.fired < MaxFirings
  /\ \E t \in bot.timers :
       /\ bot.cb[t].pc = "idle"
       /\ bot.currentTrackingMessage # 0
       /\ bot.currentChannel # 0
       /\ bot.currentTracker # 0
       /\ bot' = [bot EXCEPT !.fired = @ + 1,
                             !.cb[t].pc = "deleting",
                             !.cb[t].target = bot.currentTrackingMessage]
  /\ UNCHANGED botRest

\* lines 181-192: the deletion settles (a rejection is swallowed); the embed
\* is built from the tracker and the channel is asked for a new message,
\* either of which throws into the callback's catch when its field is
\* undefined by now
DeleteSettle ==
  /\ \E t \in Presses :
       /\ bot.cb[t].pc = "deleting"
       /\ LET b == [bot EXCEPT !.msgs[bot.cb[t].target].deleted = TRUE,
                               !.cb[t].target = 0]
          IN bot' = IF bot.currentTracker = 0 \/ bot.currentChannel = 0
                      THEN [b EXCEPT !.cb[t].pc = "idle"]
                      ELSE [b EXCEPT !.cb[t].pc = "sending",
                                     !.cb[t].user = bot.currentChannel]
  /\ UNCHANGED botRest

\* lines 188-194: the new message exists and is saved in the field
SendSettle ==
  /\ \E t \in Presses :
       /\ bot.cb[t].pc = "sending"
       /\ bot' = [bot EXCEPT
                    !.msgs = Append(@, Message(bot.cb[t].user, "recreated")),
                    !.currentTrackingMessage = Len(bot.msgs) + 1,
                    !.cb[t].pc = "idle",
                    !.cb[t].user = 0]
  /\ UNCHANGED botRest

BotNext ==
  \/ Press
  \/ Reply
  \/ TrackingSent
  \/ ProgressCallback
  \/ Resolve
  \/ Reject
  \/ SuccessEdit
  \/ Finally
  \/ Catch
  \/ ErrorReport
  \/ Fire
  \/ DeleteSettle
  \/ SendSettle

BotSpec == BotInit /\ [][BotNext]_vars

(***************************************************************************)
(* Properties                                                              *)
(***************************************************************************)
Settled == pc \in {"resolved", "rejected"}

Running(s) == {i \in DOMAIN s : s[i].status = "running"}

\* C1: the steps are started in increasing index order 0,1,...,10; step k+1
\* leaves 'pending' only once step k is 'completed'; and in every reachable
\* tracker state at most one step is 'running'.
C1_StepsInOrder ==
  /\ \A j \in 1 .. Len(startLog) : startLog[j] = j - 1
  /\ \A k \in 0 .. (NumSteps - 2) :
       steps[k + 1].status # "pending" => steps[k].status = "completed"
  /\ Cardinality(Running(steps)) <= 1

\* the last step runs after all ten others were started in order
C1_Witness ==
  /\ steps[NumSteps - 1].status = "running"
  /\ Len(startLog) = NumSteps

\* C2: when executeTransfer rejects, some step k is 'error', steps 0..k-1
\* are 'completed', steps k+1..N-1 are still 'pending', and no step after k
\* was ever started.
C2_FailureShape ==
  pc = "rejected" =>
    \E k \in StepIndices :
      /\ steps[k].status = "error"
      /\ \A i \in StepIndices : i < k => steps[i].status = "completed"
      /\ \A i \in StepIndices : i > k => steps[i].status = "pending"
      /\ \A j \in 1 .. Len(startLog) : startLog[j] <= k

\* the run failed in the middle, at the extraction step
C2_Witness ==
  /\ pc = "rejected"
  /\ steps[7].status = "error"
  /\ extractOutcome = "thrown"

\* the run left its try block because a step operation or a connect threw
FailedInStepOrConnect ==
  /\ firstError # <<>>
  /\ firstError # CallbackError("connect")

\* C3: once a step operation or an SFTP connect has failed, handleRollback
\* is executed exactly once and executeTransfer rejects with that original
\* error, never resolving; a run without failure never rolls back.
C3_RollbackOnceThenRethrow ==
  /\ rollbackCount <= 1
  /\ (Settled /\ FailedInStepOrConnect) =>
       /\ rollbackCount = 1
       /\ pc = "rejected"
       /\ error = firstError
  /\ (Settled /\ firstError = <<>>) =>
       /\ rollbackCount = 0
       /\ pc = "resolved"

RollbackDone ==
  /\ rollbackCount >= 1
  /\ pc \in {"cleanup1", "cleanup2", "rejected"}

\* C4 as stated: every rollback attempts the cache removal, the archive
\* deletion on both hosts, both restarts and the sweep, and returns.
C4_EverySubActionAlways ==
  RollbackDone =>
    /\ rb.cache \in {"removed", "failed", "absent"}
    /\ rb.archive1 \in {"deleted", "failed"}
    /\ rb.archive2 \in {"deleted", "failed"}
    /\ rb.start1 \in {"started", "failed"}
    /\ rb.start2 \in {"started", "failed"}
    /\ rb.sweep \in {"swept", "failed"}
    /\ rollbackReturned

\* C4 (amended): every rollback looks for the cache (removing it when it
\* exists), restarts both hosts and sweeps, whatever failed before; the
\* archive deletion is issued on both hosts exactly when an archive name was
\* recorded, the second even if the first failed; handleRollback returns
\* normally, so executeTransfer still rejects with the step's error.
C4_SubActionsIndependent ==
  /\ RollbackDone =>
       /\ rb.cache \in {"removed", "failed", "absent"}
       /\ archiveName # "" =>
            /\ rb.archive1 \in {"deleted", "failed"}
            /\ rb.archive2 \in {"deleted", "failed"}
       /\ archiveName = "" =>
            /\ rb.archive1 = "skipped"
            /\ rb.archive2 = "skipped"
       /\ rb.start1 \in {"started", "failed"}
       /\ rb.start2 \in {"started", "failed"}
       /\ rb.sweep \in {"swept", "failed"}
       /\ rollbackReturned
       /\ error = firstError
  /\ (pc = "rejected" /\ rollbackCount >= 1) => error = firstError

\* a rollback in which the cache removal, the first archive deletion and the
\* first restart all failed, and everything after them still ran
C4_Witness ==
  /\ pc = "rejected"
  /\ rb.cache = "failed"
  /\ rb.archive1 = "failed"
  /\ rb.archive2 = "deleted"
  /\ rb.start1 = "failed"
  /\ rb.start2 = "started"
  /\ rb.sweep = "swept"

\* C5: when executeTransfer settles, disconnect() has been called once on
\* every connection that was opened (a session is still open only if its
\* own close failed), and a failed close of srv1 does not keep srv2 open.
C5_ConnectionsClosed ==
  Settled =>
    /\ \A s \in Servers :
         /\ srvConnected[s] => disconnectCalls[s] = 1
         /\ sftpOpen[s] => (disconnectCalls[s] = 1 /\ disconnectFailed[s])
    /\ (disconnectFailed["srv1"] /\ srvConnected["srv2"]) =>
         disconnectCalls["srv2"] = 1

\* closing srv1 failed and srv2 was closed all the same
C5_Witness ==
  /\ Settled
  /\ disconnectFailed["srv1"]
  /\ srvConnected["srv2"]
  /\ disconnectCalls["srv2"] = 1
  /\ ~sftpOpen["srv2"]

\* the decompress request ended in a client-side timeout
ClientTimedOut ==
  /\ ex.response.code = "ECONNABORTED"
  /\ ex.response.timeoutMsg

\* C6: after a client-side timeout, a polled listing holding a name absent
\* from the Before snapshot makes extractArchive return at that poll: as many
\* sleeps as listings, no give-up warning, and no further poll.
C6_NewEntryReturnsAtThatPoll ==
  (/\ ClientTimedOut
   /\ ex.lastListed
   /\ \E f \in ex.lastAfter : f \notin ex.filesBefore) =>
     /\ ex.pc = "returned"
     /\ ~ex.warned
     /\ ex.sleeps = ex.pollLists
     /\ ex.pollingAttempts = ex.pollLists
     /\ (ex.filesBefore = {"a", "b"} /\ ex.lastAfter = {"a", "b", "c"}
           /\ ex.pollLists = 1) => ex.sleeps = 1

\* Before = {a,b}, first After = {a,b,c}: returned after one interval
C6_Witness ==
  /\ ClientTimedOut
  /\ ex.pc = "returned"
  /\ ex.filesBefore = {"a", "b"}
  /\ ex.lastAfter = {"a", "b", "c"}
  /\ ex.sleeps = 1
  /\ ex.pollLists = 1

\* C7: after a client-side timeout, a polled listing without the archive,
\* when the Before snapshot held it, makes extractArchive return at that
\* poll even though no new entry appeared.
C7_ArchiveGoneReturns ==
  (/\ ClientTimedOut
   /\ ex.lastListed
   /\ archiveName \in ex.filesBefore
   /\ archiveName \notin ex.lastAfter) =>
     /\ ex.pc = "returned"
     /\ ~ex.warned
     /\ ex.sleeps = ex.pollLists

\* Before = {archive}, After = {}: success with no new entry
C7_Witness ==
  /\ ClientTimedOut
  /\ ex.pc = "returned"
  /\ ex.filesBefore = {archiveName}
  /\ ex.lastListed
  /\ ex.lastAfter = {}
  /\ ~ex.warned

\* C8: after a client-side timeout, if each of the N polled listings equals
\* the Before snapshot, extractArchive does not throw, stops polling after
\* exactly N intervals, and returns normally with the warning logged.
C8_GiveUpAfterN ==
  /\ [](/\ (ClientTimedOut /\ ex.allSame) => ex.pc \in {"poll", "returned"}
        /\ (ClientTimedOut /\ ex.allSame) => ex.sleeps <= maxPollingAttempts
        /\ (ex.pc = "returned" /\ ex.warned) =>
              /\ ex.sleeps = maxPollingAttempts
              /\ ex.pollLists = maxPollingAttempts)
  /\ [][(/\ ClientTimedOut
         /\ ex.allSame
         /\ ex.pc = "poll"
         /\ ex.pollLists = maxPollingAttempts) =>
           (ex'.pc = "returned" /\ ex'.warned /\ ex'.sleeps = ex.sleeps)]_vars

\* N unchanged listings of a non-empty directory, then the warned return
C8_Witness ==
  /\ ClientTimedOut
  /\ ex.pc = "returned"
  /\ ex.warned
  /\ ex.allSame
  /\ ex.filesBefore = {archiveName, "a"}
  /\ ex.sleeps = maxPollingAttempts

\* C9: a decompress request that succeeds makes extractArchive return at
\* once, with no polling sleep and no polling listing.
C9_SuccessReturnsImmediately ==
  ex.response.ok =>
    /\ ex.pc = "returned"
    /\ ex.sleeps = 0
    /\ ex.pollLists = 0
    /\ ~ex.warned

C9_Witness ==
  /\ ex.response.ok
  /\ ex.pc = "returned"

\* C10: a decompress request that fails with anything but a client-side
\* timeout makes extractArchive throw its extraction error at once, with no
\* polling sleep and no polling listing; step 7 fails with that error.
C10_RejectionThrowsImmediately ==
  /\ (/\ ex.response # NoResponse
      /\ ~ex.response.ok
      /\ ~ClientTimedOut) =>
        /\ ex.pc = "thrown"
        /\ ex.sleeps = 0
        /\ ex.pollLists = 0
  /\ extractOutcome = "thrown" =>
        /\ firstError = <<"Impossible d'extraire ", archiveName>>
        /\ steps[7].status = "error"

\* an aborted connection whose message does not mention a timeout
C10_Witness ==
  /\ ex.pc = "thrown"
  /\ ex.response.code = "ECONNABORTED"
  /\ ~ex.response.timeoutMsg

\* transferFileDirect is between its first await and its settlement
TransferRunning ==
  /\ InTransfer
  /\ transfer.phase \in {"download", "upload", "finally"}

\* C11 as stated: once transferFileDirect has settled, however it ended, the
\* local temp file is not on the local file system.
C11_TempFileAbsent ==
  transfer.phase = "settled" => "tempfile" \notin localFs

\* C11 (amended): once the temp file has a name, every exit of
\* transferFileDirect (resolved, download failed, upload threw) goes through
\* one removal of it; after settlement the file is on disk only if that
\* removal itself failed, and otherwise only while the transfer is running.
C11_TempFileRemovalAlwaysAttempted ==
  /\ (transfer.phase = "settled" /\ transfer.stat = "ok") =>
       transfer.cleanup \in {"removed", "failed"}
  /\ (transfer.phase = "settled" /\ transfer.cleanup # "failed") =>
       "tempfile" \notin localFs
  /\ "tempfile" \in localFs => (TransferRunning \/ transfer.cleanup = "failed")

\* the upload phase threw after a complete download, and the file is gone
C11_Witness ==
  /\ transfer.phase = "settled"
  /\ transfer.cleanup = "removed"
  /\ firstError = <<"Transfert direct echoue: ", "upload", "failed">>
  /\ steps[4].status = "error"
  /\ "tempfile" \notin localFs

\* C12: a 'conflict' answer of the power endpoint (the host is already in the
\* requested state) makes setPowerState return normally, so the awaiting step
\* goes on without an error; an accepted request returns too; every other
\* failure of the request makes it raise, and the step takes that error.
C12_ConflictIsSuccess ==
  /\ [](/\ pw.resp \in {"ok", "conflict"} => pw.outcome = "return"
        /\ pw.resp = "error" => pw.outcome = "throw")
  /\ [][(pw.resp = "conflict") =>
          (/\ pc' = "exec"
           /\ ip' = NextIp
           /\ error' = <<>>
           /\ steps' = steps)]_vars
  /\ [][(pw.resp = "error") =>
          \/ /\ Instr.onThrow = 0
             /\ pc' = "catch"
             /\ firstError' = CallError("setPowerState", Instr.srv, Instr.arg)
             /\ steps'[stepIdx].status = "error"
          \/ /\ Instr.onThrow # 0
             /\ pc' = "exec"
             /\ ip' = Instr.onThrow]_vars

\* 'stop' answered by a conflict on srv2 after srv1 accepted it: returning
C12_Witness ==
  /\ pw.resp = "conflict"
  /\ pw.outcome = "return"
  /\ Instr.srv = "srv2"
  /\ Instr.arg = "stop"
  /\ steps[1].status = "running"
  /\ <<"srv1", "stop", "return">> \in powerLog

\* C13: isCompleted() is true exactly when every step is 'completed',
\* hasErrors() exactly when at least one step is 'error', and in no state of
\* a run are both true.
C13_CompletedXorErrors ==
  /\ isCompleted(steps) <=> (\A i \in StepIndices : steps[i].status = "completed")
  /\ hasErrors(steps) <=> (\E i \in StepIndices : steps[i].status = "error")
  /\ ~(isCompleted(steps) /\ hasErrors(steps))

\* the run resolved: the tracker is completed and holds no error
C13_Witness ==
  /\ pc = "resolved"
  /\ isCompleted(steps)
  /\ ~hasErrors(steps)

\* C14: over a run, getOverallProgress() never decreases from one tracker
\* update to the next, for step starts, intermediate progress updates (those
\* of the relay-transfer step included) and step completions.
C14_OverallProgressMonotonic ==
  [][~hasErrors(steps') =>
       getOverallProgress(steps') >= getOverallProgress(steps)]_vars

\* C15: with N steps, k of them 'completed' and the running step at p%,
\* getOverallProgress() is (k + p/100) / N * 100 rounded to the nearest
\* integer; with no running step it is k / N * 100 rounded.
C15_OverallProgressFormula ==
  LET N == NumSteps
      k == Cardinality({i \in StepIndices : steps[i].status = "completed"})
      v == getOverallProgress(steps)
      \* v is the integer nearest to x / N, halves going up
      Rounded(x) == 2 * N * v - N <= 2 * x /\ 2 * x < 2 * N * v + N
  IN /\ \A i \in StepIndices :
          Running(steps) = {i} => Rounded(100 * k + steps[i].progress)
     /\ Running(steps) = {} => Rounded(100 * k)
     /\ v \in 0 .. 100

\* four steps completed and one running at 50%: round(4.5 / 11 * 100) = 41
C15_Witness ==
  /\ Cardinality({i \in StepIndices : steps[i].status = "completed"}) = 4
  /\ Running(steps) = {0}
  /\ steps[0].progress = 50
  /\ getOverallProgress(steps) = 41

\* C16: getCurrentStep() is -1 exactly when no step is 'running', and
\* otherwise it is the index of the single running step.
C16_CurrentStepIndex ==
  /\ getCurrentStep(steps) = -1 <=> Running(steps) = {}
  /\ \A i \in StepIndices : Running(steps) = {i} => getCurrentStep(steps) = i

\* the second step is the single running one, after a completed first step
C16_Witness ==
  /\ Running(steps) = {1}
  /\ steps[0].status = "completed"
  /\ getCurrentStep(steps) = 1

Errored(s) == {i \in DOMAIN s : s[i].status = "error"}

\* C17: whenever executeTransfer rejects, the tracker it leaves has
\* hasErrors() true, exactly one step in 'error' and no step 'running'.
C17_RejectedTrackerTerminal ==
  pc = "rejected" =>
    /\ hasErrors(steps)
    /\ Cardinality(Errored(steps)) = 1
    /\ Running(steps) = {}

\* the second SFTP connect failed while step 2 was shown running: the catch
\* block marked it
C17_Witness ==
  /\ pc = "rejected"
  /\ firstError = CallError("connect", "srv2", "")
  /\ Errored(steps) = {2}
  /\ Running(steps) = {}

\* the first failure of the run is an exception of the progress callback
CallbackThrewFirst ==
  \E j \in 1 .. Len(firstError) : firstError[j] = "progressCallback threw"

\* C18: an exception thrown by the progress callback never causes a step to
\* be marked 'error', never triggers rollback and never makes
\* executeTransfer reject.
C18_ReportingFailureNeverAborts ==
  CallbackThrewFirst =>
    /\ ~hasErrors(steps)
    /\ rollbackCount = 0
    /\ pc # "rejected"

\* C19 as stated: when the stat of the source file fails, transferFileDirect
\* still proceeds to the download and upload phases instead of failing.
C19_StatBestEffort ==
  transfer.stat = "stat" =>
    /\ transfer.phase \in {"download", "upload", "finally", "settled"}
    /\ transfer.phase = "settled" => transfer.cleanup # "none"
    /\ firstError # <<"Transfert direct echoue: ", "stat">>

\* C19 (amended): the stat of the source file is required: when it fails,
\* transferFileDirect rejects with its transfer error before any download or
\* upload phase and before a temp file exists, and step 4 fails with it.
C19_StatFailureRejects ==
  transfer.stat = "stat" =>
    /\ transfer.phase = "settled"
    /\ transfer.cleanup = "none"
    /\ "tempfile" \notin localFs
    /\ firstError = <<"Transfert direct echoue: ", "stat">>
    /\ steps[4].status = "error"
    /\ pc # "resolved"

\* the stat failed and the run was rejected with the transfer error
C19_Witness ==
  /\ transfer.stat = "stat"
  /\ pc = "rejected"
  /\ error = <<"Transfert direct echoue: ", "stat">>
  /\ Errored(steps) = {4}

\* C20: within one phase, two consecutive onProgress invocations are at
\* least 500 ms apart on the clock, and the first is at least 500 ms after
\* the phase started, however often chunks are reported.
C20_ProgressThrottled ==
  /\ th.lastCall # -1 => th.lastCall - th.startTime >= 500
  /\ th.prevCall # -1 => th.lastCall - th.prevCall >= 500

\* two invocations of the upload phase exactly 500 ms apart, after a chunk
\* that arrived in between was passed over
C20_Witness ==
  /\ th.phase = "upload"
  /\ th.prevCall # -1
  /\ th.lastCall - th.prevCall = 500

\* C21: in every progress event, speed is the bytes transferred since the
\* previous event (since the start of the transfer, for the first) divided
\* by the time elapsed since then, and eta is the remaining bytes divided by
\* that speed when the speed is positive, infinite when it is zero.
C21_InstantaneousSpeedAndEta ==
  th.lastCall # -1 =>
    LET since == IF th.prevCall = -1 THEN th.armTime ELSE th.prevCall
        bytesBefore == IF th.prevCall = -1 THEN 0 ELSE th.prevCallBytes
    IN /\ th.speed.den > 0
       /\ th.speed.num * (th.lastCall - since) =
            1000 * (th.callBytes - bytesBefore) * th.speed.den
       /\ th.speed.num > 0 =>
            /\ ~th.eta.inf
            /\ th.eta.den > 0
            /\ th.eta.num * th.speed.num =
                 (FileSize - th.callBytes) * th.speed.den * th.eta.den
       /\ th.speed.num = 0 => th.eta.inf

\* a second event, 500 ms after the first, with one byte of the three come
\* since then: 2 bytes/s whatever the average since the start, 0.5 s left
C21_Witness ==
  /\ th.prevCall # -1
  /\ th.lastCall - th.prevCall = 500
  /\ th.prevCallBytes = 1
  /\ th.callBytes = 2
  /\ th.speed = [num |-> 1000, den |-> 500]
  /\ th.eta = [inf |-> FALSE, num |-> 500, den |-> 1000]

\* a TransferService exists, or its run has begun
ServiceCreated == handler.pc \in {"created", "transfer"}

\* C22 as stated: when any configuration input is missing (base URL, API
\* key, server id, SFTP host, port, user, password, root, local staging
\* directory), no TransferService is created and no remote call is made.
C22_AnyMissingInputAborts ==
  handler.env # ConfigInputs => ~ServiceCreated

\* C22 (amended): when one of the fourteen required variables is missing
\* the handler returns before a TransferService is created; a missing SFTP
\* port or staging directory does not abort: the port is then 2022 and the
\* staging directory /tmp/playerdata_backup.
C22_RequiredInputsValidated ==
  /\ (requiredEnvVars \ handler.env) # {} =>
       /\ ~ServiceCreated
       /\ handler.pc \in {"validate", "aborted"}
       /\ handler.pc = "aborted" => handler.missingVars = requiredEnvVars \ handler.env
  /\ ServiceCreated =>
       /\ requiredEnvVars \subseteq handler.env
       /\ \A s \in Servers : handler.sftpPort[s] = sftpPortOf(handler.env, s)
       /\ "TEMP_CACHE_PATH" \notin handler.env =>
            handler.tempCachePath = "/tmp/playerdata_backup"
       /\ "SRV1_SFTP_PORT" \notin handler.env => handler.sftpPort["srv1"] = "2022"

\* the destination root and the source port are unset: aborted for the root
C22_Witness ==
  /\ handler.pc = "aborted"
  /\ handler.env = ConfigInputs \ {"SRV2_SFTP_ROOT", "SRV1_SFTP_PORT"}
  /\ handler.missingVars = {"SRV2_SFTP_ROOT"}

\* C23: waitForServerState returns once its delay has elapsed whatever state
\* the waited servers are in, and never throws: the awaiting step goes on
\* with its next statement, no step errors there, and no run ever fails with
\* an error of waitForServerState.
C23_FixedDelayAlwaysReturns ==
  /\ [](wt # WtIdle => wt.outcome = "return")
  /\ [][wt # WtIdle =>
          (/\ wt' = WtIdle
           /\ pc' = "exec"
           /\ ip' = NextIp
           /\ error' = <<>>
           /\ steps' = steps)]_vars
  /\ [](\A s \in Servers \cup {"both"}, t \in {"offline", "running"} :
          firstError # CallError("waitForServerState", s, t))

\* the restart step waited for 'running' while the destination was offline
C23_Witness ==
  /\ stepIdx = 10
  /\ wt.actual["srv2"] = "offline"
  /\ wt.outcome = "return"
  /\ Instr.arg = "running"

\* C24: when the polling waitForServerState leaves its loop because the time
\* or the attempts are used up, no query having reported the target, and
\* neither optimistic return for 'offline' applies (a failed query after
\* more than 5 attempts, 10 or more attempts at the timeout), it throws the
\* Timeout error, and that error carries the state of the last query
\* ('unknown' when the last query gave none or no query was made); it
\* throws in no other case.
C24_TimeoutCarriesLastState ==
  /\ poll.pc = "thrown" =>
       /\ ~poll.matched
       /\ poll.elapsed >= poll.maxWaitTime \/ poll.attempts >= poll.maxAttempts
       /\ ~(poll.targetState = "offline" /\ poll.attempts >= 10)
       /\ poll.message[1] = "Timeout"
       /\ poll.message[4] =
            (IF poll.attempts = 0 THEN "unknown" ELSE poll.currentState)
  /\ poll.pc = "returned" =>
       \/ poll.matched /\ poll.currentState = poll.targetState
       \/ /\ poll.targetState = "offline"
          /\ \/ poll.attempts >= 10
             \/ poll.attempts > 5 /\ poll.currentState = "unknown"
  /\ (poll.pc \in {"returned", "thrown"} /\ poll.targetState = "running") =>
       (poll.pc = "thrown" <=> ~poll.matched)

\* nine polls saw the server stopping and the time ran out
C24_Witness ==
  /\ poll.pc = "thrown"
  /\ poll.targetState = "offline"
  /\ poll.attempts = 9
  /\ poll.message = <<"Timeout", "offline", 28500, "stopping">>

\* C25: for each executeStep(k, op), step k is 'running' with progress 0
\* when op is invoked; once op has resolved the step becomes 'completed' with
\* progress 100; when op throws the step becomes 'error' and its message
\* ends with the message of what was thrown; and a step's status only goes
\* pending -> running -> completed or error, never back and never out of
\* 'completed' or 'error'.
C25_StepLifecycle ==
  /\ [][(pc = "exec" /\ ip = 0) =>
          (/\ ip' = 1
           /\ steps'[stepIdx] = [status |-> "running",
                                 message |-> <<"En cours...">>, progress |-> 0])]_vars
  /\ [](pc = "exec" /\ ip >= 1 => steps[stepIdx].status = "running")
  /\ [][(pc = "exec" /\ ip = OpLen + 1) =>
          (/\ steps'[stepIdx].status = "completed"
           /\ steps'[stepIdx].progress = 100)]_vars
  /\ [][(pc = "exec" /\ pc' = "catch") =>
          (/\ ip >= 1
           /\ firstError' # <<>>
           /\ steps'[stepIdx].status = "error"
           /\ steps'[stepIdx].message = <<"Erreur: ">> \o firstError'
           /\ stepIdx \in {3, 9} => Len(firstError') >= 2)]_vars
  /\ [][\A k \in StepIndices :
          <<steps[k].status, steps'[k].status>> \in
            {<<"pending", "pending">>, <<"pending", "running">>,
             <<"running", "running">>, <<"running", "completed">>,
             <<"running", "error">>, <<"completed", "completed">>,
             <<"error", "error">>}]_vars

\* compressFolder threw in step 2 after steps 0 and 1 had completed
C25_Witness ==
  /\ pc = "catch"
  /\ steps[0].status = "completed" /\ steps[0].progress = 100
  /\ steps[1].status = "completed" /\ steps[1].progress = 100
  /\ steps[2].status = "error"
  /\ steps[2].message = <<"Erreur: ">> \o CallError("compressFolder", "srv1", "world")
  /\ steps[3].status = "pending"

\* C26: after a client-side timeout, whatever the polled listings answer,
\* failures included, extractArchive sleeps at most N = 24 times and then
\* returns; a failed listing is not thrown to the caller and uses up one of
\* the N iterations.
C26_PollingTerminates ==
  /\ [](ClientTimedOut =>
          /\ ex.pc \in {"poll", "returned"}
          /\ ex.sleeps <= maxPollingAttempts
          /\ ex.pollingAttempts = ex.sleeps
          /\ ex.pollLists = ex.sleeps)
  /\ [][(/\ ClientTimedOut
         /\ ex.pc = "poll"
         /\ ex'.pc = "poll"
         /\ ex' # ex
         /\ ~ex'.lastListed) =>
           (/\ ex'.pollingAttempts = ex.pollingAttempts + 1
            /\ ex'.sleeps = ex.sleeps + 1)]_vars
  /\ (ClientTimedOut /\ ex.pc = "poll") ~> (ex.pc = "returned")

\* the 24th listing failed as well: back with the warning after 24 sleeps
C26_Witness ==
  /\ ClientTimedOut
  /\ ex.pc = "returned"
  /\ ex.warned
  /\ ~ex.lastListed
  /\ ~ex.allSame
  /\ ex.sleeps = maxPollingAttempts

\* C27: a run in which extractArchive gave up unconfirmed goes on as after
\* a confirmed extraction: step 7 ends 'completed', the cleanup step 8 runs,
\* and the archive's deletion is requested on both servers.
C27_UnconfirmedTreatedAsConfirmed ==
  (Settled /\ extractOutcome = "unconfirmed") =>
    /\ steps[7].status = "completed"
    /\ steps[8].status # "pending"
    /\ \A s \in Servers : <<s, archiveName>> \in remoteDeletes

Issued(srv, signal) == \E o \in {"return", "throw"} : <<srv, signal, o>> \in powerLog

\* C29: when executeTransfer settles after a 'stop' was sent to a server, a
\* 'start' has been sent to srv1 and to srv2 (by steps 5 and 10, or by the
\* rollback), the one also when the other failed.
C29_StoppedHostsRestarted ==
  (Settled /\ \E s \in Servers : Issued(s, "stop")) =>
    \A s \in Servers : Issued(s, "start")

C31_EveryRunSettles ==
  /\ <>Settled
  /\ [](Settled => \A s \in Servers : srvConnected[s] => disconnectCalls[s] = 1)
  /\ [](ex.sleeps <= maxPollingAttempts)
  /\ [][Settled => UNCHANGED vars]_vars

\* settled after the longest wait of the pipeline: 24 polls without a sign
C31_Witness ==
  /\ pc = "resolved"
  /\ extractOutcome = "unconfirmed"
  /\ \A s \in Servers : disconnectCalls[s] = 1

\* the files of a folder, by their place in the walk
FilePaths(tree) ==
  {<<i>> : i \in {k \in DOMAIN tree : tree[k] = 0}} \cup
  UNION {{<<i, j>> : j \in 1 .. tree[i] - 1} : i \in DOMAIN tree}

\* the walk reaches p before q
WalkedBefore(p, q) ==
  \/ p[1] < q[1]
  \/ p[1] = q[1] /\ Len(p) = 2 /\ Len(q) = 2 /\ p[2] < q[2]

\* C32: downloadFolder and uploadFolder transfer the tree entry by entry and
\* stop at the first failure: the files transferred are exactly those the
\* walk reached before the failing entry, they stay in place, nothing after
\* it is transferred, and the caller gets an error that ends with the cause;
\* a walk without failure transfers every file.
C32_WalkStopsAtFirstFailure ==
  /\ walk.pc = "thrown" =>
       /\ walk.done = {p \in FilePaths(walk.tree) : WalkedBefore(p, walk.failedAt)}
       /\ Len(walk.error) >= 3
       /\ walk.error[Len(walk.error)] \in
            {"ensureDir", "list", "readdir", "stat", "uploadFile", "downloadFile"}
       /\ walk.error[2] = <<>>
  /\ walk.pc = "returned" => walk.done = FilePaths(walk.tree)
  /\ walk.pc = "loop" => walk.done \subseteq FilePaths(walk.tree)

\* the second file of a sub-folder failed: the file before it and the first
\* file of the sub-folder stay, the file after the sub-folder is not fetched
C32_Witness ==
  /\ walk.pc = "thrown"
  /\ walk.op = "download"
  /\ walk.tree = <<0, 3, 0>>
  /\ walk.failedAt = <<2, 2>>
  /\ walk.done = {<<1>>, <<2, 1>>}

\* C33: the deletion of srv2's old world folder is requested only once the
\* playerdata backup (step 3) and the transfer of the archive to srv2
\* (step 4) have completed: at that moment the transfer call has settled and
\* the local playerdata backup exists.
C33_OldWorldDeletedAfterTransfer ==
  /\ [][(<<"srv2", "world">> \notin remoteDeletes /\
         <<"srv2", "world">> \in remoteDeletes') =>
          (/\ steps[3].status = "completed"
           /\ steps[4].status = "completed"
           /\ transfer.phase = "settled"
           /\ "cache/playerdata" \in localFs
           /\ stepIdx = 6)]_vars
  /\ [](<<"srv2", "world">> \in remoteDeletes =>
          (steps[3].status = "completed" /\ steps[4].status = "completed"))

\* the deletion has just been requested by step 6
C33_Witness ==
  /\ <<"srv2", "world">> \in remoteDeletes
  /\ stepIdx = 6
  /\ steps[6].status = "running"
  /\ steps[4].status = "completed"
  /\ "cache/playerdata" \in localFs

\* C34: after a run that ends with every step 'completed', srv2's
\* world/playerdata holds what it held before the run, whatever fileExists
\* answered during the backup.
C34_PlayerdataRoundTrip ==
  (Settled /\ isCompleted(steps)) => pd.remote.files = pd.before.files

\* C35: in every state of a run, also after a failed step and the rollback
\* that follows, the player files srv2 held before the run are still on srv2
\* or in the local backup.
C35_PlayerdataCopyExists ==
  \/ pd.before.files \subseteq pd.remote.files
  \/ pd.before.files \subseteq pd.backup

\* C36: extractArchive returns through the new-entry test only when the
\* polled listing holds an entry that was not in the destination directory
\* when the Before snapshot was attempted, also when that listing failed.
C36_NewEntryWasAbsentBefore ==
  (/\ ClientTimedOut
   /\ ex.pc = "returned"
   /\ ~ex.warned
   /\ ~(ex.hasArchiveBefore /\ ~hasArchive(ex.lastAfter, archiveName))) =>
     \E f \in ex.lastAfter : f \notin ex.inDirectory

\* C39: updateStep(i, status, message, progress) changes step i and nothing
\* else: the other steps, their number and their order stay as they were, an
\* index outside the list leaves the tracker as it was, and the tracker holds
\* the same NumSteps steps in every reachable state.
C39_UpdateStepFrame ==
  /\ [](DOMAIN steps = StepIndices)
  /\ [](\A status \in Statuses, progress \in Percentages :
          /\ \A i \in {-1, NumSteps} :
               updateStep(steps, i, status, <<"message">>, progress) = steps
          /\ \A i \in StepIndices :
               LET s == updateStep(steps, i, status, <<"message">>, progress)
               IN /\ DOMAIN s = DOMAIN steps
                  /\ \A j \in StepIndices \ {i} : s[j] = steps[j]
                  /\ s[i] = [status |-> status, message |-> <<"message">>,
                             progress |-> progress])
  /\ [][/\ DOMAIN steps' = DOMAIN steps
         /\ Cardinality({j \in StepIndices : steps'[j] # steps[j]}) <= 1]_vars

\* the first step was updated to 'error' at 50% while the second, updated
\* before it, and the untouched last step kept their values
C39_Witness ==
  /\ steps[0] = [status |-> "error", message |-> <<"message">>, progress |-> 50]
  /\ steps[1] = [status |-> "completed", message |-> <<"message">>,
                 progress |-> 100]
  /\ steps[NumSteps - 1] = initializeSteps[NumSteps - 1]
  /\ DOMAIN steps = StepIndices

\* C37: at most one executeTransfer is in progress at any time: a press of
\* 'start_transfer' that arrives during a run starts no second run beside
\* it.
C37_OneRunAtATime ==
  \A p, q \in Presses :
    (bot.h[p].pc = "run" /\ bot.h[q].pc = "run") => p = q

\* C38: a handler whose executeTransfer resolved ends with the success
\* report and not with the error report, wherever the embed-recreation
\* timer fired; stated for a press that no other press accompanies.
C38_SuccessIsReported ==
  \A p \in Presses :
    (/\ bot.h[p].pc = "done"
     /\ bot.h[p].resolved
     /\ \A q \in Presses \ {p} : bot.h[q].pc = "idle") =>
       bot.h[p].report = "success"

====
